---------------------------- MODULE Spec2Model ----------------------------
(***************************************************************************)
(* A model of the repair orchestration engine of code-autofix-engine:      *)
(* the LLM-output merge strategy (fixer/merge_strategy.py) and the         *)
(* iteration controller (iterations/iteration_controller.py) with the      *)
(* helpers they call.                                                      *)
(*                                                                         *)
(* Source text.  A Python source text is modelled at the granularity of    *)
(* its lines.  A text is the sequence of lines that text.split("\n")       *)
(* yields, so a text that ends in a newline ends in an empty line; the     *)
(* empty text is the empty sequence.  A line is a record                   *)
(*     [ind |-> indentation level, k |-> kind, n |-> name or value]        *)
(* and stands for one concrete line of Python:                             *)
(*     def     "def <n>(n):"           block header the merge regex finds  *)
(*     with    "with <n>:"             block header that is no def/class   *)
(*     ret     "return <n>"                                                *)
(*     esc     "print('\d')"           a statement holding a backslash     *)
(*                                     escape re.sub rejects in a template *)
(*     assign  "<n> = 1"                                                   *)
(*     import  "import <n>"                                                *)
(*     expr    "print(<n>)"                                                *)
(*     list    "<n> = [1, 2]"                                              *)
(*     open    "<n> = [1, 2"           an opener left unclosed             *)
(*     prose   "Here is the fix"       not Python                          *)
(*     close   "]"                     closers appended by SSR             *)
(*     marker  "# forced-diff-<n>"     the forced-difference comment       *)
(*     blank   ""                                                          *)
(* An indentation level is four spaces.                                    *)
(***************************************************************************)
EXTENDS Integers, Sequences, FiniteSets, TLC

L(ind, k, n) == [ind |-> ind, k |-> k, n |-> n]

Blank == L(0, "blank", "")

IsBlank(l) == l.k = "blank"

IsComment(l) == l.k = "marker"

IsHeader(l) == l.k \in {"def", "with"}

\* The line begins with a whitespace character.
StartsWithSpace(l) == l.ind > 0 /\ ~IsBlank(l)

Min2(a, b) == IF a < b THEN a ELSE b

Max2(a, b) == IF a > b THEN a ELSE b

Last(s) == s[Len(s)]

Front(s) == SubSeq(s, 1, Len(s) - 1)

\* SubSeq that is empty when the range is empty or out of the sequence.
Slice(s, a, b) == IF a > b \/ a > Len(s) THEN <<>> ELSE SubSeq(s, a, Min2(b, Len(s)))

\* The text of one empty line and no newline is the empty text.
Canon(t) == IF t = <<Blank>> THEN <<>> ELSE t

(***************************************************************************)
(* str methods on texts.                                                   *)
(***************************************************************************)
RECURSIVE rstrip(_)
rstrip(t) ==
    IF t = <<>> THEN <<>>
    ELSE IF IsBlank(Last(t)) THEN rstrip(Front(t))
    ELSE t

RECURSIVE lstrip(_)
lstrip(t) ==
    IF t = <<>> THEN <<>>
    ELSE IF IsBlank(t[1]) THEN lstrip(Tail(t))
    ELSE <<[t[1] EXCEPT !.ind = 0]>> \o Tail(t)

strip(t) == lstrip(rstrip(t))

\* str.splitlines(): the lines without the empty remainder after a final newline.
splitlines(t) ==
    IF t = <<>> THEN <<>>
    ELSE IF IsBlank(Last(t)) THEN Front(t)
    ELSE t

(***************************************************************************)
(* ast.parse, on the grammar of the line kinds.  Blank and comment lines   *)
(* are skipped.  stack holds the indentation levels of the enclosing       *)
(* blocks; need says that a header was read and its block is due.  A line  *)
(* after a header must be indented deeper, any other line must sit at the  *)
(* level of an enclosing block.  An unclosed opener swallows what follows: *)
(* it parses only when blank and comment lines alone separate it from a    *)
(* line holding its one closer (brk).                                      *)
(***************************************************************************)
Digits == <<"1", "2", "3", "4", "5", "6", "7", "8", "9">>

\* The number of closers a "close" line holds.
CloserCount(l) == IF \E c \in 1..Len(Digits) : Digits[c] = l.n
                  THEN CHOOSE c \in 1..Len(Digits) : Digits[c] = l.n
                  ELSE 1

RECURSIVE PopTo(_, _)
PopTo(stack, d) ==
    IF Len(stack) > 1 /\ stack[Len(stack)] > d THEN PopTo(SubSeq(stack, 1, Len(stack) - 1), d)
    ELSE stack

(***************************************************************************)
(* The first error of the tokenizer alone on the lines from j on: a dedent *)
(* to no open level, a closer without its opener.  Inside brackets it      *)
(* reads no indentation.  When the parser misses the block of a header,    *)
(* it lets the tokenizer read on, and a closer without opener found that   *)
(* way is the error reported.                                              *)
(***************************************************************************)
RECURSIVE TokenError(_, _, _, _)
TokenError(t, j, stack, depth) ==
    IF j > Len(t) THEN ""
    ELSE LET l == t[j]
             rest == PopTo(stack, l.ind)
             levels == IF l.ind > stack[Len(stack)] THEN stack \o <<l.ind>> ELSE rest
         IN
         IF IsBlank(l) \/ IsComment(l) THEN TokenError(t, j + 1, stack, depth)
         ELSE IF depth > 0
         THEN (IF l.k = "close"
               THEN (IF CloserCount(l) > depth THEN "SyntaxError"
                     ELSE TokenError(t, j + 1, stack, depth - CloserCount(l)))
               ELSE TokenError(t, j + 1, stack, IF l.k = "open" THEN depth + 1 ELSE depth))
         ELSE IF levels[Len(levels)] # l.ind THEN "IndentationError"
         ELSE IF l.k = "close" THEN "SyntaxError"
         ELSE TokenError(t, j + 1, levels, IF l.k = "open" THEN 1 ELSE 0)

\* The error ast.parse raises on the lines from j on, "" when it raises none.
RECURSIVE ParseFrom(_, _, _, _, _)
ParseFrom(t, j, stack, need, brk) ==
    IF j > Len(t) THEN (IF brk THEN "SyntaxError" ELSE IF need THEN "IndentationError" ELSE "")
    ELSE LET l == t[j]
             top == stack[Len(stack)]
             rest == PopTo(stack, l.ind)
         IN
         IF IsBlank(l) \/ IsComment(l) THEN ParseFrom(t, j + 1, stack, need, brk)
         ELSE IF brk
         THEN (IF l.k = "close" /\ l.n = "1" THEN ParseFrom(t, j + 1, stack, FALSE, FALSE)
               ELSE "SyntaxError")
         ELSE IF need /\ l.ind <= top
         THEN (IF TokenError(t, j, stack, 0) = "SyntaxError" THEN "SyntaxError"
               ELSE "IndentationError")
         ELSE IF ~need /\ (l.ind > top \/ rest[Len(rest)] # l.ind) THEN "IndentationError"
         ELSE IF l.k \in {"prose", "close", "assign:", "list:", "call:", "sub,"} THEN "SyntaxError"
         ELSE ParseFrom(t, j + 1, IF need THEN stack \o <<l.ind>> ELSE rest,
                        IsHeader(l), l.k = "open")

ParseError(t) == ParseFrom(t, 1, <<0>>, FALSE, FALSE)

Parses(t) == ParseError(t) = ""


(***************************************************************************)
(* fixer/merge_strategy.py                                                 *)
(***************************************************************************)
MAX_ADDED_TOPLEVEL_DEFS == 12

MAX_ADDED_IMPORTS == 8

\* SHRINK_THRESHOLD = 0.75, as a percentage.
SHRINK_THRESHOLD_PCT == 75

\* The number of leading lines _strip_non_code_prefix looks at.
PREFIX_SCAN_LINES == 40

\* A parse check that accepts every text.
ParseOkAlways(code) == TRUE

_parse_ok(code) == Parses(code)

_top_level_names(code) ==
    IF ~Parses(code) THEN {}
    ELSE {code[j].n : j \in {i \in 1..Len(code) :
                                code[i].ind = 0
                                /\ code[i].k \in {"def", "assign", "list", "call", "qcall"}}}

_imports_from_code(code) ==
    IF ~Parses(code) THEN {}
    ELSE {code[j].n : j \in {i \in 1..Len(code) : code[i].k = "import"}}
             \cup (IF \E j \in 1..Len(code) : code[j].k = "from" THEN {"math"} ELSE {})

\* The line matches ^\s*(def |class |import |from |NAME\s*=|if |for |while |async def ).
LooksLikeCode(l) == l.k \in {"def", "import", "from", "assign", "list", "call", "open"}

_strip_non_code_prefix(s) ==
    LET lines == splitlines(s)
        hits == {i \in 1..Min2(Len(lines), PREFIX_SCAN_LINES) : LooksLikeCode(lines[i])}
    IN  IF hits = {} THEN s
        ELSE LET i == CHOOSE x \in hits : \A y \in hits : x <= y
             IN  Canon(SubSeq(lines, i, Len(lines)))

_count_lines(s) == IF s = <<>> THEN 0 ELSE Len(splitlines(s))

\* The first line after j that is not blank, Len(t) + 1 when there is none.
RECURSIVE NextNonBlank(_, _)
NextNonBlank(t, j) ==
    IF j > Len(t) THEN Len(t) + 1
    ELSE IF IsBlank(t[j]) THEN NextNonBlank(t, j + 1)
    ELSE j

(***************************************************************************)
(* The tail (?:\s+.*\n)+ of the definition regex, matched greedily from    *)
(* the start of line j: the index of the last line it consumes, j - 1 when *)
(* it consumes none.  Each repetition needs a whitespace character and a   *)
(* closing newline: it takes an indented line, or, as \s matches "\n", the *)
(* blank lines before a line together with that line whatever it is.  The  *)
(* final line of a text has no newline and is never taken.                 *)
(***************************************************************************)
RECURSIVE BlockEnd(_, _)
BlockEnd(t, j) ==
    LET n == Len(t) IN
    IF j >= n THEN j - 1
    ELSE IF StartsWithSpace(t[j]) THEN BlockEnd(t, j + 1)
    ELSE IF IsBlank(t[j])
         THEN LET k == NextNonBlank(t, j) IN
              IF k < n THEN BlockEnd(t, k + 1)
              ELSE IF n - 1 >= j + 1 THEN n - 1
              ELSE j - 1
    ELSE j - 1

\* (?:^|\n)(?:async\s+def|def|class)\s+NAME\b[^\n]*:\n(?:\s+.*\n)+ matches at line h.
DefMatchesAt(t, h, name) ==
    /\ h < Len(t)
    /\ t[h].k = "def"
    /\ t[h].ind = 0
    /\ t[h].n = name
    /\ BlockEnd(t, h + 1) >= h + 1

DefMatches(t, name) == {h \in 1..Len(t) : DefMatchesAt(t, h, name)}

\* re.search(pattern, t, flags=re.MULTILINE) finds the definition of name.
DefFound(t, name) == DefMatches(t, name) # {}

\* The replacement template holds a backslash escape re.sub rejects.
BadTemplate(blk) == \E j \in 1..Len(blk) : blk[j].k = "esc"

\* re.sub(pattern, "\n" + blk + "\n", target, count=1, flags=re.MULTILINE),
\* called when the pattern is found and the template is accepted.
_safe_replace_first(target, name, blk) ==
    LET h == CHOOSE x \in DefMatches(target, name) : \A y \in DefMatches(target, name) : x <= y
        e == BlockEnd(target, h + 1)
    IN  (IF h = 1 THEN <<Blank>> ELSE SubSeq(target, 1, h - 1))
        \o blk \o <<Blank>> \o SubSeq(target, e + 1, Len(target))

\* re.findall of the definition regex with any name: the captured blocks, in order.
RECURSIVE FindBlocks(_, _)
FindBlocks(t, from) ==
    LET hs == {h \in from..Len(t) : DefMatchesAt(t, h, t[h].n)} IN
    IF hs = {} THEN <<>>
    ELSE LET h == CHOOSE x \in hs : \A y \in hs : x <= y
             e == BlockEnd(t, h + 1)
         IN  <<SubSeq(t, h, e)>> \o FindBlocks(t, e + 1)

(***************************************************************************)
(* The substitution loop of steps 3 and 4: each block whose name is        *)
(* defined in tmp replaces that definition when the result parses.  The    *)
(* result is [tmp, changed, raised]; raised when re.sub rejects a block.   *)
(***************************************************************************)
RECURSIVE SubstituteBlocks(_, _, _, _)
SubstituteBlocks(blocks, i, tmp, changed) ==
    IF i > Len(blocks) THEN [tmp |-> tmp, changed |-> changed, raised |-> FALSE]
    ELSE LET blk == blocks[i]
             name == blk[1].n
         IN  IF ~DefFound(tmp, name) THEN SubstituteBlocks(blocks, i + 1, tmp, changed)
             ELSE IF BadTemplate(blk) THEN [tmp |-> tmp, changed |-> changed, raised |-> TRUE]
             ELSE LET merged_candidate == _safe_replace_first(tmp, name, blk) IN
                  IF _parse_ok(merged_candidate)
                  THEN SubstituteBlocks(blocks, i + 1, merged_candidate, TRUE)
                  ELSE SubstituteBlocks(blocks, i + 1, tmp, changed)

Returns(text) == [raised |-> FALSE, text |-> text]

Raises == [raised |-> TRUE, text |-> <<>>]

\* Step 1: the candidate parses; accept it or reject it.
MergeFullCandidate(base, candidate) ==
    LET base_lines == _count_lines(base)
        cand_lines == _count_lines(candidate)
        added_defs == _top_level_names(candidate) \ _top_level_names(base)
        new_imports == _imports_from_code(candidate) \ _imports_from_code(base)
    IN  IF base_lines > 0
           /\ cand_lines < Max2(1, (base_lines * SHRINK_THRESHOLD_PCT) \div 100)
        THEN Returns(base)
        ELSE IF Cardinality(added_defs) > MAX_ADDED_TOPLEVEL_DEFS
                \/ Cardinality(new_imports) > MAX_ADDED_IMPORTS
        THEN Returns(base)
        ELSE Returns(candidate)

\* Step 4 behind its substitution loop: r is the outcome of the loop.
FunctionRewriteResult(base, blocks, r) ==
    IF blocks = <<>> THEN Returns(base)
    ELSE IF r.raised THEN Raises
    ELSE IF r.changed /\ _parse_ok(r.tmp)
    THEN (IF Cardinality(_top_level_names(r.tmp) \ _top_level_names(base))
                 > MAX_ADDED_TOPLEVEL_DEFS
             \/ Cardinality(_imports_from_code(r.tmp) \ _imports_from_code(base))
                 > MAX_ADDED_IMPORTS
          THEN Returns(base)
          ELSE Returns(r.tmp))
    ELSE Returns(base)

FunctionRewriteBlocks(base, blocks) ==
    FunctionRewriteResult(base, blocks, SubstituteBlocks(blocks, 1, base, FALSE))

\* Step 4: function-level rewrite from the raw output, outside any try.
MergeFunctionRewrite(base, llm_out) == FunctionRewriteBlocks(base, FindBlocks(llm_out, 1))

\* Step 3 behind its substitution loop, and step 4 when it merged nothing.
RegexPartialResult(base, llm_out, allow_full_rewrite, blocks, r) ==
    IF blocks # <<>> /\ ~r.raised /\ r.changed /\ _parse_ok(r.tmp) THEN Returns(r.tmp)
    ELSE IF allow_full_rewrite THEN MergeFunctionRewrite(base, llm_out)
    ELSE Returns(base)

\* Step 3: regex partial merge of the blocks of the candidate, inside a try.
MergeRegexPartial(base, llm_out, allow_full_rewrite, blocks) ==
    RegexPartialResult(base, llm_out, allow_full_rewrite, blocks,
                       SubstituteBlocks(blocks, 1, base, FALSE))

\* The steps of merge_llm_result behind the extraction of the candidate.
MergeCandidate(base, llm_out, allow_full_rewrite, candidate) ==
    IF _parse_ok(candidate) THEN MergeFullCandidate(base, candidate)
    ELSE IF ~Parses(base) THEN Returns(base)
    ELSE MergeRegexPartial(base, llm_out, allow_full_rewrite, FindBlocks(candidate, 1))

(***************************************************************************)
(* merge_llm_result(base, llm_out, allow_full_rewrite).  Step 2 of the     *)
(* source (the AST partial merge) runs only when the candidate does not    *)
(* parse and is guarded by "if cand_tree", the parse of that candidate: it *)
(* never executes and contributes nothing here.                            *)
(***************************************************************************)
merge_llm_result(base, llm_out, allow_full_rewrite) ==
    IF llm_out = <<>> THEN Returns(base)
    ELSE MergeCandidate(base, llm_out, allow_full_rewrite,
                        strip(_strip_non_code_prefix(llm_out)))


(***************************************************************************)
(* fixer/ssr_fixer.py.  Closing the opener of an "open" line makes it the  *)
(* "list" line of the same name.  A "quoted" line is print("["): its one   *)
(* bracket without closer stands in a string.                              *)
(***************************************************************************)
SSR_MAX_ATTEMPTS == 4

\* Whether the line has an opener the stack of the line keeps.  The scan
\* reads no quotes: the "[" of a "quoted" line is pushed, the ")" behind it
\* does not match it, and the "(" comes back as the earliest opener.
_first_unclosed_opener_in_line(l) == l.k \in {"open", "quoted"}

\* The line with the closer of its opener behind it; the ")" of a "quoted"
\* line stands behind its "(" and the line stays as it is.
_close_opener_on_line(l) == IF l.k = "open" THEN L(l.ind, "list", l.n) ELSE l

_line_is_likely_statement_start(l) == l.k \notin {"blank", "close", "marker"}

_split_out_of_literal(lines, idx) ==
    LET start == lines[idx]
        closed == [lines EXCEPT ![idx] = _close_opener_on_line(start)]
        remove == IF start.ind > 0 THEN start.ind ELSE 1
    IN  IF idx + 1 <= Len(lines)
           /\ (lines[idx + 1].ind <= start.ind \/ _line_is_likely_statement_start(lines[idx + 1]))
        THEN [closed EXCEPT ![idx + 1] =
                 L(Max2(0, lines[idx + 1].ind - remove), lines[idx + 1].k, lines[idx + 1].n)]
        ELSE closed

\* The indexes of the lines holding an opener without its closer, earliest first.
RECURSIVE _find_last_openers(_, _)
_find_last_openers(lines, j) ==
    IF j > Len(lines) THEN <<>>
    ELSE (IF _first_unclosed_opener_in_line(lines[j]) THEN <<j>> ELSE <<>>)
             \o _find_last_openers(lines, j + 1)

\* The depth of the opener stack after the lines from j on; the scan skips
\* what stands between quotes.
RECURSIVE OpenerDepth(_, _, _)
OpenerDepth(t, j, depth) ==
    IF j > Len(t) THEN depth
    ELSE IF t[j].k = "open" THEN OpenerDepth(t, j + 1, depth + 1)
    ELSE IF t[j].k = "close" THEN OpenerDepth(t, j + 1, Max2(0, depth - CloserCount(t[j])))
    ELSE OpenerDepth(t, j + 1, depth)

_count_unmatched_openers(code) == OpenerDepth(code, 1, 0)

(***************************************************************************)
(* _close_all_openers_conservatively: the missing closers go on a line of  *)
(* their own when the text does not end in a newline, and straight behind  *)
(* the last character that is not white space when it does.                *)
(***************************************************************************)
_close_all_openers_conservatively(code) ==
    LET c == _count_unmatched_openers(code)
        body == rstrip(code)
        last == body[Len(body)]
    IN  IF c = 0 THEN code
        ELSE IF code[Len(code)] # Blank
        THEN body \o << L(0, "close", Digits[Min2(c, Len(Digits))]), Blank >>
        ELSE Front(body)
             \o << IF last.k = "open" /\ c = 1 THEN L(last.ind, "list", last.n)
                   ELSE L(last.ind, "prose", "") >>
             \o << Blank >>

SsrFinal(lines) ==
    LET final_try == _close_all_openers_conservatively(lines)
    IN  IF final_try # lines /\ Parses(final_try) THEN final_try ELSE lines

\* The inner loop over the openers of one attempt.
RECURSIVE SsrOpeners(_, _)
SsrOpeners(lines, openers) ==
    IF openers = <<>> THEN [returned |-> FALSE, changed |-> FALSE, lines |-> lines]
    ELSE LET candidate_lines == _split_out_of_literal(lines, Head(openers)) IN
         IF candidate_lines = lines THEN SsrOpeners(lines, Tail(openers))
         ELSE IF Parses(candidate_lines)
         THEN [returned |-> TRUE, changed |-> TRUE, lines |-> candidate_lines]
         ELSE IF _count_unmatched_openers(candidate_lines) < _count_unmatched_openers(lines)
         THEN [returned |-> FALSE, changed |-> TRUE, lines |-> candidate_lines]
         ELSE SsrOpeners(lines, Tail(openers))

RECURSIVE SsrAttempts(_, _)
SsrAttempts(lines, attempt) ==
    IF attempt >= SSR_MAX_ATTEMPTS THEN SsrFinal(lines)
    ELSE LET openers == _find_last_openers(lines, 1)
             r == SsrOpeners(lines, openers)
         IN  IF openers = <<>> THEN SsrFinal(lines)
             ELSE IF r.returned THEN r.lines
             ELSE IF r.changed THEN SsrAttempts(r.lines, attempt + 1)
             ELSE SsrFinal(lines)

apply_ssr_fix(code) ==
    IF code = <<>> THEN code
    ELSE IF Parses(code) THEN code
    ELSE SsrAttempts(code, 0)


(***************************************************************************)
(* iterations/iteration_controller.py: the helpers of the repair loop.     *)
(***************************************************************************)
IterNames == <<"1", "2", "3", "4", "5", "6", "7", "8", "9">>

normalize_code(s) == rstrip(s)

\* The number of characters of a name and of a line as the source writes it.
NameLen(n) ==
    CASE n = "" -> 0
      [] n \in {"x", "y", "0", "1"} -> 1
      [] n \in {"fib"} -> 3
      [] n \in {"list", "lock", "math", "sqrt"} -> 4
      [] n = "values" -> 6
      [] n \in {"memo[0]", "memo[n]"} -> 7
      [] n = "factorial" -> 9
      [] OTHER -> 2

LineChars(l) ==
    4 * l.ind +
    CASE l.k = "def" -> 9 + NameLen(l.n)
      [] l.k = "with" -> 6 + NameLen(l.n)
      [] l.k = "ret" -> 7 + NameLen(l.n)
      [] l.k = "esc" -> 11
      [] l.k = "assign" -> 4 + NameLen(l.n)
      [] l.k = "import" -> 7 + NameLen(l.n)
      [] l.k = "from" -> 17 + NameLen(l.n)
      [] l.k = "call" -> 11 + NameLen(l.n)
      [] l.k = "expr" -> 7 + NameLen(l.n)
      [] l.k = "list" -> 9 + NameLen(l.n)
      [] l.k = "open" -> 8 + NameLen(l.n)
      [] l.k = "prose" -> 15
      [] l.k = "close" -> CloserCount(l)
      [] l.k = "marker" -> 14 + NameLen(l.n)
      [] OTHER -> 0

RECURSIVE TextChars(_)
TextChars(t) == IF t = <<>> THEN 0 ELSE 1 + LineChars(Head(t)) + TextChars(Tail(t))

\* The line starts with four spaces and holds something more.
IsIndented(l) == l.ind >= 1 /\ ~IsBlank(l)

\* The last line of the run of indented lines that starts at line j.
RECURSIVE RunEnd(_, _)
RunEnd(t, j) == IF j + 1 <= Len(t) /\ IsIndented(t[j + 1]) THEN RunEnd(t, j + 1) ELSE j

\* re.findall(r"(?:\n(?: {4}|\t).+)+", "\n" + llm): the maximal runs of indented lines.
RECURSIVE IndentedBlocks(_, _)
IndentedBlocks(t, j) ==
    IF j > Len(t) THEN <<>>
    ELSE IF IsIndented(t[j])
    THEN <<SubSeq(t, j, RunEnd(t, j))>> \o IndentedBlocks(t, RunEnd(t, j) + 1)
    ELSE IndentedBlocks(t, j + 1)

\* max(blocks, key=len): the first block of the greatest length.
LongestBlock(blocks) ==
    LET best == CHOOSE i \in 1..Len(blocks) :
                    /\ \A j \in 1..Len(blocks) : TextChars(blocks[j]) <= TextChars(blocks[i])
                    /\ \A j \in 1..(i - 1) : TextChars(blocks[j]) < TextChars(blocks[i])
    IN  blocks[best]

\* re.search(r"(def |class |=|\()", line) succeeds.
HasCodeToken(l) == l.k \in {"def", "assign", "list", "open", "expr", "esc"}

\* The shortest window of trailing lines that holds a code token, all lines when none does.
LastLinesWindow(lines) ==
    LET hits == {w \in 1..Min2(40, Len(lines)) :
                    \E j \in (Len(lines) - w + 1)..Len(lines) : HasCodeToken(lines[j])}
    IN  IF hits = {} THEN SubSeq(lines, Max2(1, Len(lines) - 39), Len(lines))
        ELSE LET w == CHOOSE x \in hits : \A y \in hits : x <= y
             IN  SubSeq(lines, Len(lines) - w + 1, Len(lines))

\* generate_llm_fix hands back only text that ast.parse accepts, and a code
\* fence is no Python: the fenced branches are never taken on its answers.
extract_code_from_llm(llm) ==
    LET indented_blocks == IndentedBlocks(llm, 1)
        block == LongestBlock(indented_blocks)
        lines == SelectSeq(llm, LAMBDA l : ~IsBlank(l))
    IN  IF llm = <<>> THEN <<>>
        ELSE IF indented_blocks # <<>>
        THEN strip([j \in 1..Len(block) |-> L(block[j].ind - 1, block[j].k, block[j].n)])
        ELSE IF lines = <<>> THEN <<>>
        ELSE strip(LastLinesWindow(lines))

ForcedDiffMarker(iteration) == L(0, "marker", IterNames[iteration])

ensure_diff(old_code, new_code, iteration) ==
    IF normalize_code(old_code) # normalize_code(new_code) THEN new_code
    ELSE (IF rstrip(new_code) = <<>> THEN <<Blank>> ELSE rstrip(new_code))
         \o << ForcedDiffMarker(iteration), Blank >>

\* Of the heuristics of the source, the texts of the model can trigger the
\* fibonacci one alone: "def fib", "memo" and "return memo[0]" occur.
detect_semantic_conflicts(code) ==
    /\ \E j \in 1..Len(code) : code[j].k = "def" /\ code[j].n = "fib"
    /\ \E j \in 1..Len(code) : code[j].k = "ret" /\ code[j].n = "memo[0]"


(***************************************************************************)
(* compute_changes.  difflib.ndiff aligns the two line lists on their      *)
(* longest common block (the earliest in the old list, then the earliest   *)
(* in the new one among equals) and on the same around it; lines outside   *)
(* the blocks are removed or added.  ndiff pairs lines that resemble each  *)
(* other inside a replaced stretch, which orders its rows otherwise and    *)
(* leaves the line numbers as they are; that pairing is not modelled.      *)
(***************************************************************************)
RECURSIVE MatchLen(_, _, _, _, _, _)
MatchLen(a, i, ahi, b, j, bhi) ==
    IF i <= ahi /\ j <= bhi /\ a[i] = b[j] THEN 1 + MatchLen(a, i + 1, ahi, b, j + 1, bhi) ELSE 0

find_longest_match(a, alo, ahi, b, blo, bhi) ==
    LET cands == {<<i, j>> \in (alo..ahi) \X (blo..bhi) : a[i] = b[j]}
        size(c) == MatchLen(a, c[1], ahi, b, c[2], bhi)
    IN  IF cands = {} THEN <<alo, blo, 0>>
        ELSE LET best == CHOOSE c \in cands :
                            \A d \in cands :
                                \/ size(d) < size(c)
                                \/ size(d) = size(c) /\ c[1] < d[1]
                                \/ size(d) = size(c) /\ c[1] = d[1] /\ c[2] <= d[2]
             IN  <<best[1], best[2], size(best)>>

Row(tag, text) == [tag |-> tag, text |-> text]

RECURSIVE ndiff(_, _, _, _, _, _)
ndiff(a, alo, ahi, b, blo, bhi) ==
    LET m == find_longest_match(a, alo, ahi, b, blo, bhi)
        removes == [x \in 1..(ahi - alo + 1) |-> Row("-", a[alo + x - 1])]
        adds == [x \in 1..(bhi - blo + 1) |-> Row("+", b[blo + x - 1])]
    IN  IF alo > ahi THEN adds
        ELSE IF blo > bhi THEN removes
        ELSE IF m[3] = 0
        THEN (IF bhi - blo < ahi - alo THEN adds \o removes ELSE removes \o adds)
        ELSE ndiff(a, alo, m[1] - 1, b, blo, m[2] - 1)
             \o [x \in 1..m[3] |-> Row(" ", a[m[1] + x - 1])]
             \o ndiff(a, m[1] + m[3], ahi, b, m[2] + m[3], bhi)

\* The loop of compute_changes over the rows; a line number of 0 is None.
RECURSIVE ChangeRows(_, _, _, _, _, _, _)
ChangeRows(rows, r, old_ln, new_ln, iteration, method, err_type) ==
    IF r > Len(rows) THEN <<>>
    ELSE IF rows[r].tag = " "
    THEN ChangeRows(rows, r + 1, old_ln + 1, new_ln + 1, iteration, method, err_type)
    ELSE IF rows[r].tag = "-"
    THEN << [iteration |-> iteration, fix_method |-> method, error_type |-> err_type,
             change_type |-> "removed", line_old |-> old_ln + 1, line_new |-> 0,
             old_text |-> rows[r].text, new_text |-> Blank] >>
         \o ChangeRows(rows, r + 1, old_ln + 1, new_ln, iteration, method, err_type)
    ELSE << [iteration |-> iteration, fix_method |-> method, error_type |-> err_type,
             change_type |-> "added", line_old |-> 0, line_new |-> new_ln + 1,
             old_text |-> Blank, new_text |-> rows[r].text] >>
         \o ChangeRows(rows, r + 1, old_ln, new_ln + 1, iteration, method, err_type)

\* compute_changes stamping its entries with the next iteration.
ComputeChangesNextIteration(old_code, new_code, iteration, method, err_type) ==
    LET a == splitlines(old_code)
        b == splitlines(new_code)
    IN  ChangeRows(ndiff(a, 1, Len(a), b, 1, Len(b)), 1, 0, 0, iteration + 1, method, err_type)

compute_changes(old_code, new_code, iteration, method, err_type) ==
    LET a == splitlines(old_code)
        b == splitlines(new_code)
    IN  ChangeRows(ndiff(a, 1, Len(a), b, 1, Len(b)), 1, 0, 0, iteration, method, err_type)


(***************************************************************************)
(* runtime/sandbox_runner.py.  A diagnostic text is the set of the tokens  *)
(* it holds, the empty set when it is empty or white space; an output is   *)
(* the sequence of the values printed, a value being its type, the name    *)
(* behind it and, for a function, its address.  The interpreter runs a     *)
(* parsing text line by line: a definition, an assignment and an import    *)
(* bind their name, an import from math binds a function of math, a call   *)
(* of sqrt raises NameError when sqrt is unbound and binds its result when *)
(* sqrt is that function, a print of an unbound name raises NameError, a   *)
(* with raises NameError on an unbound name and TypeError on a bound one,  *)
(* whose value is no context manager, a return outside a function is       *)
(* refused by the compiler, and the escape of an "esc" line draws a        *)
(* SyntaxWarning.                                                          *)
(* The address a function prints differs from run to run or not, as the    *)
(* system lays the process out.  The run may also exceed its time limit    *)
(* whatever the text.                                                      *)
(***************************************************************************)
BuiltinNames == {"list"}

Addresses == {"0x1", "0x2"}

SyntaxErrorText == {"SyntaxError"}

NameErrorText == {"Traceback", "NameError"}

TypeErrorText == {"Traceback", "TypeError"}

TimeoutText == {"TIMEOUT"}

\* The names of the model that the module math holds.
MathNames == {"sqrt", "factorial"}

\* The names bound before the first line runs.
Builtins == [x \in BuiltinNames |-> <<"class", x, "">>]

Bind(env, name, value) ==
    [x \in DOMAIN env \cup {name} |-> IF x = name THEN value ELSE env[x]]

\* The value a binding line gives its name.
BoundValue(l, address) ==
    CASE l.k = "def" -> <<"function", l.n, address>>
      [] l.k = "assign" -> <<"int", "1", "">>
      [] l.k = "import" -> <<"module", l.n, "">>
      [] l.k = "from" -> <<"builtin", l.n, "">>
      [] l.k = "call" -> <<"float", "4.0", "">>
      [] OTHER -> <<"list", "[1, 2]", "">>

IsBinding(l) == l.k \in {"def", "assign", "list", "import", "open"}

\* The diagnostic of the call of sqrt, empty when math.sqrt is what it calls.
CallError(env) ==
    CASE "sqrt" \notin DOMAIN env -> NameErrorText
      [] "sqrt" \in DOMAIN env /\ env["sqrt"][1] = "builtin" -> {}
      [] "sqrt" \in DOMAIN env /\ env["sqrt"][1] \in {"int", "list", "module", "float"} ->
             TypeErrorText

\* skip is the indentation of the definition whose body is passed over, -1 outside one.
RECURSIVE Interpret(_, _, _, _, _, _)
Interpret(code, j, env, out, skip, address) ==
    IF j > Len(code) THEN [stdout |-> out, stderr |-> {}, env |-> env]
    ELSE IF IsBlank(code[j]) \/ IsComment(code[j]) \/ (skip >= 0 /\ code[j].ind > skip)
    THEN Interpret(code, j + 1, env, out, skip, address)
    ELSE IF IsBinding(code[j])
    THEN Interpret(code, j + 1, Bind(env, code[j].n, BoundValue(code[j], address)), out,
                   IF code[j].k = "def" THEN code[j].ind ELSE -1, address)
    ELSE IF code[j].k = "close" THEN Interpret(code, j + 1, env, out, -1, address)
    ELSE IF code[j].k = "from" /\ code[j].n \in MathNames
    THEN Interpret(code, j + 1, Bind(env, code[j].n, BoundValue(code[j], address)), out, -1,
                   address)
    ELSE IF code[j].k = "call"
    THEN (IF CallError(env) = {}
          THEN Interpret(code, j + 1, Bind(env, code[j].n, BoundValue(code[j], address)), out,
                         -1, address)
          ELSE [stdout |-> out, stderr |-> CallError(env), env |-> env])
    ELSE IF code[j].k = "with"
    THEN [stdout |-> out, env |-> env,
          stderr |-> IF code[j].n \in DOMAIN env THEN TypeErrorText ELSE NameErrorText]
    ELSE IF code[j].k = "expr"
    THEN (IF code[j].n \in DOMAIN env
          THEN Interpret(code, j + 1, env, Append(out, env[code[j].n]), -1, address)
          ELSE [stdout |-> out, stderr |-> NameErrorText, env |-> env])
    ELSE CASE code[j].k = "esc" ->
                  Interpret(code, j + 1, env, Append(out, <<"str", "d", "">>), -1, address)

\* A return stands outside every function.
RECURSIVE ReturnOutside(_, _, _)
ReturnOutside(code, j, fn) ==
    IF j > Len(code) THEN FALSE
    ELSE LET l == code[j] IN
         IF IsBlank(l) \/ IsComment(l) THEN ReturnOutside(code, j + 1, fn)
         ELSE LET open == SelectSeq(fn, LAMBDA d : d < l.ind) IN
              IF l.k = "ret" /\ open = <<>> THEN TRUE
              ELSE ReturnOutside(code, j + 1, IF l.k = "def" THEN open \o <<l.ind>> ELSE open)

HasEscape(code) == \E j \in 1..Len(code) : code[j].k = "esc"

\* What the process of a run leaves: its output and its diagnostic.
ProcessResult(code, r, escape_warning) ==
    [stdout |-> r.stdout,
     stderr |-> r.stderr \cup (IF escape_warning /\ HasEscape(code) THEN {"SyntaxWarning"}
                               ELSE {})]

\* escape_warning: the interpreter of the build reports invalid escapes;
\* address: where the system puts the functions of this run.
run_python(code, escape_warning, address) ==
    IF ~Parses(code) THEN [stdout |-> <<>>, stderr |-> {ParseError(code)}]
    ELSE IF ReturnOutside(code, 1, <<>>) THEN [stdout |-> <<>>, stderr |-> SyntaxErrorText]
    ELSE ProcessResult(code, Interpret(code, 1, Builtins, <<>>, -1, address), escape_warning)

\* The outcomes of one run: what the interpreter writes, or the time limit.
run_in_sandbox(code) ==
    {run_python(code, w, a) : w \in BOOLEAN, a \in Addresses}
        \cup {[stdout |-> <<>>, stderr |-> TimeoutText]}

(***************************************************************************)
(* errors/error_parser.py and errors/error_classifier.py                   *)
(***************************************************************************)
parse_error(stderr) ==
    IF stderr = {} THEN "NONE"
    ELSE IF "SyntaxError" \in stderr THEN "SYNTAX"
    ELSE IF "NameError" \in stderr THEN "NAME"
    ELSE IF "IndexError" \in stderr THEN "INDEX"
    ELSE IF "KeyError" \in stderr THEN "KEY"
    ELSE IF "AttributeError" \in stderr THEN "ATTRIBUTE"
    ELSE IF "ZeroDivisionError" \in stderr THEN "ZERO_DIVISION"
    ELSE IF "RecursionError" \in stderr THEN "RECURSION"
    ELSE "RUNTIME"

AST_FIRST == {"SYNTAX", "NAME", "IMPORT", "ATTRIBUTE", "KEY", "VALUE", "FILE", "PARSE",
              "REGEX", "ENCODING"}

LLM_FIRST == {"LOGICAL", "RECURSION", "RUNTIME", "ZERO_DIVISION", "ARITHMETIC", "NETWORK",
              "SYSTEM", "MEMORY"}

\* The members of ErrorType. errors/error_types.py is not part of the source
\* tree; the members are those the specification enumerates.
ErrorKinds == {"NONE", "SYNTAX", "NAME", "INDEX", "KEY", "ATTRIBUTE", "VALUE", "IMPORT", "TYPE",
               "ZERO_DIVISION", "RECURSION", "RUNTIME", "LOGICAL", "FILE", "PARSE", "REGEX",
               "ENCODING", "NETWORK", "SYSTEM", "MEMORY", "UNKNOWN"}

\* choose_fix_method with the structured fixer as its default.
ChooseFixMethodAstDefault(error_type) ==
    IF error_type \in AST_FIRST THEN "AST"
    ELSE IF error_type \in LLM_FIRST THEN "LLM"
    ELSE "AST"

choose_fix_method(error_type) ==
    IF error_type \in AST_FIRST THEN "AST"
    ELSE IF error_type \in LLM_FIRST THEN "LLM"
    ELSE "LLM"

(***************************************************************************)
(* utils/validation.py                                                     *)
(***************************************************************************)
clean_stderr(stderr) == stderr \ {"[INFO]"}

\* The tokens that hold "warning" or "deprecated" in lower case.
HarmlessTokens == {"SyntaxWarning", "DeprecationWarning"}

is_success(stdout, stderr, error_type) ==
    /\ error_type = "NONE"
    /\ (clean_stderr(stderr) = {} \/ clean_stderr(stderr) \cap HarmlessTokens # {})

validate_iteration(stdout, stderr, error_type) == is_success(stdout, stderr, error_type)


(***************************************************************************)
(* fixer/logical_detector.py.  An issue is its type and its suggested      *)
(* patch: "return0" rewrites return 0 to return 1, "memo0" rewrites        *)
(* memo[0] to memo[n], "return0_after_def" rewrites the first return 0     *)
(* behind each definition of factorial, "none" is no patch.  The generated *)
(* tests call the tested functions with an integer and fail when the call  *)
(* raises: what a call returns is never compared with what is expected.    *)
(* The time limit of the test process is not modelled.                     *)
(***************************************************************************)
Issue(issue_type, patch) == [issue_type |-> issue_type, patch |-> patch]

detect_known_patterns(code) ==
    IF \E j \in 1..Len(code) : code[j].k = "ret" /\ code[j].n = "memo[0]"
    THEN <<Issue("KNOWN_PATTERN", "memo0")>>
    ELSE <<>>

\* Line j lies in the body of the definition at line h.
InBody(code, h, j) ==
    /\ h < j
    /\ \A x \in (h + 1)..j : IsBlank(code[x]) \/ IsComment(code[x]) \/ code[x].ind > code[h].ind

\* Line j is a statement of the block of the definition at line h itself.
DirectStatement(code, h, j) ==
    /\ InBody(code, h, j)
    /\ ~IsBlank(code[j]) /\ ~IsComment(code[j])
    /\ \A x \in (h + 1)..j :
          IsBlank(code[x]) \/ IsComment(code[x]) \/ code[x].ind >= code[j].ind

\* One issue for each of the lines, in the order of the lines.
IssuesAt(hits, issue) == [x \in 1..Cardinality(hits) |-> issue]

\* One issue for each return 0 and each definition of factorial around it.
RECURSIVE FactorialIssues(_, _, _)
FactorialIssues(code, h, j) ==
    IF h > Len(code) THEN <<>>
    ELSE IF j > Len(code) THEN FactorialIssues(code, h + 1, h + 2)
    ELSE (IF /\ code[h].k = "def" /\ code[h].n = "factorial"
             /\ code[j].k = "ret" /\ code[j].n = "0"
             /\ InBody(code, h, j)
          THEN <<Issue("FACTORIAL_BASE_CASE", "return0")>> ELSE <<>>)
         \o FactorialIssues(code, h, j + 1)

detect_factorial_base_case_heuristic(code) == FactorialIssues(code, 1, 2)

\* In an imported module __builtins__ is a dict, and dir(__builtins__) lists
\* the attributes of dict: those are the names the detector takes for builtins.
DictAttributeNames == {"values"}

detect_shadowing_builtins(code) ==
    IssuesAt({j \in 1..Len(code) :
                 code[j].k \in {"assign", "list"} /\ code[j].n \in DictAttributeNames},
             Issue("SHADOW_BUILTIN", "none"))

detect_unreachable_code(code) ==
    IssuesAt({j \in 1..Len(code) :
                 \E h \in 1..(j - 1) : \E r \in (h + 1)..(j - 1) :
                     /\ code[h].k = "def"
                     /\ DirectStatement(code, h, r) /\ code[r].k = "ret"
                     /\ DirectStatement(code, h, j)
                     /\ \A x \in (r + 1)..(j - 1) : ~DirectStatement(code, h, x)},
             Issue("UNREACHABLE_CODE", "none"))

\* The names for which _generate_basic_tests_for_function has tests.
TestedNames == {"factorial", "fib"}

\* generate_tests: the top-level definitions that get tests, three tests each.
RECURSIVE TestedDefs(_, _)
TestedDefs(code, j) ==
    IF j > Len(code) THEN <<>>
    ELSE (IF code[j].k = "def" /\ code[j].ind = 0 /\ code[j].n \in TestedNames
          THEN <<j>> ELSE <<>>) \o TestedDefs(code, j + 1)

\* The names the body of the top-level definition at line h binds itself:
\* they are local in the whole body.
LocalNames(code, h) ==
    {code[j].n : j \in {x \in (h + 1)..Len(code) :
        /\ InBody(code, h, x)
        /\ IsBinding(code[x])
        /\ ~\E d \in (h + 1)..(x - 1) : code[d].k = "def" /\ InBody(code, d, x)}}

\* A read of the name in a call finds a value.
Readable(name, env, locals, shadow) ==
    name \in DOMAIN locals \/ (name \notin shadow /\ name \in DOMAIN env)

Lookup(name, env, locals) == IF name \in DOMAIN locals THEN locals[name] ELSE env[name]

\* The call of a top-level function from line j of its body on: whether it
\* raises, and what it prints.  return of a literal returns it; memo[..] reads
\* a name no text binds to a list.
RECURSIVE CallBody(_, _, _, _, _, _, _)
CallBody(code, j, env, locals, shadow, out, skip) ==
    IF j > Len(code) THEN [raised |-> FALSE, out |-> out]
    ELSE IF IsBlank(code[j]) \/ IsComment(code[j]) \/ (skip >= 0 /\ code[j].ind > skip)
    THEN CallBody(code, j + 1, env, locals, shadow, out, skip)
    ELSE IF code[j].ind = 0 THEN [raised |-> FALSE, out |-> out]
    ELSE IF IsBinding(code[j])
    THEN CallBody(code, j + 1, env, Bind(locals, code[j].n, BoundValue(code[j], "0x0")),
                  shadow, out, IF code[j].k = "def" THEN code[j].ind ELSE -1)
    ELSE IF code[j].k = "close" THEN CallBody(code, j + 1, env, locals, shadow, out, -1)
    ELSE IF code[j].k = "with" THEN [raised |-> TRUE, out |-> out]
    ELSE IF code[j].k = "ret"
    THEN [raised |-> code[j].n \notin {"0", "1"} /\ ~Readable(code[j].n, env, locals, shadow),
          out |-> out]
    ELSE IF code[j].k = "expr"
    THEN (IF Readable(code[j].n, env, locals, shadow)
          THEN CallBody(code, j + 1, env, locals, shadow,
                        Append(out, Lookup(code[j].n, env, locals)), -1)
          ELSE [raised |-> TRUE, out |-> out])
    ELSE CallBody(code, j + 1, env, locals, shadow, Append(out, <<"str", "d", "">>), -1)

\* The last top-level definition of the name.
LastTopDef(code, name) ==
    CHOOSE h \in 1..Len(code) :
        /\ code[h].k = "def" /\ code[h].ind = 0 /\ code[h].n = name
        /\ \A g \in (h + 1)..Len(code) :
              ~(code[g].k = "def" /\ code[g].ind = 0 /\ code[g].n = name)

\* eval of one test call behind the run of the module: the name is called
\* as the module left it.
CallAt(code, h, env) ==
    CallBody(code, h + 1, env, [x \in {"n"} |-> <<"int", "n", "">>], LocalNames(code, h),
             <<>>, -1)

TestCall(code, name, env) ==
    IF env[name][1] = "function" THEN CallAt(code, LastTopDef(code, name), env)
    ELSE [raised |-> TRUE, out |-> <<>>]

HoldsBracket(out) == \E x \in 1..Len(out) : out[x][1] = "list"

\* The first definition of factorial is followed, before any other def, by return 0.
FactorialRegion(code) ==
    \E h \in 1..Len(code) :
        /\ code[h].k = "def" /\ code[h].n = "factorial"
        /\ \A g \in 1..(h - 1) : ~(code[g].k = "def" /\ code[g].n = "factorial")
        /\ \E j \in (h + 1)..Len(code) :
              /\ code[j].k = "ret" /\ code[j].n = "0"
              /\ \A g \in (h + 1)..(j - 1) : code[g].k # "def"

\* analyze_test_results for the three tests of one definition.
TestIssues(code, name, call) ==
    IF ~call.raised THEN <<>>
    ELSE [x \in 1..3 |->
            IF name = "factorial" /\ FactorialRegion(code)
            THEN Issue("TEST_FAILURE_FACTORIAL_BASE", "return0_after_def")
            ELSE Issue("TEST_FAILURE", "none")]

RECURSIVE DynamicIssues(_, _, _, _)
DynamicIssues(code, tested, x, env) ==
    IF x > Len(tested) THEN <<>>
    ELSE TestIssues(code, code[tested[x]].n, TestCall(code, code[tested[x]].n, env))
         \o DynamicIssues(code, tested, x + 1, env)

NoIssues == [raised |-> FALSE, issues |-> <<>>]

\* run_tests_in_subprocess and analyze_test_results behind the run r of the
\* module in the test driver.  What the driver wrote is read as JSON, whole or
\* from its first [ to its last ]: the results of a driver that ended, unless a
\* list was printed in front of them; one printed integer or list when the
\* module raised, and analyze_test_results raises on either.
TestOutcome(code, tested, r) ==
    IF r.stderr # {}
    THEN [raised |-> \/ (Len(r.stdout) = 1 /\ r.stdout[1][1] = "int")
                     \/ Cardinality({x \in 1..Len(r.stdout) : r.stdout[x][1] = "list"}) = 1,
          issues |-> <<>>]
    ELSE IF \/ HoldsBracket(r.stdout)
            \/ \E x \in 1..Len(tested) :
                  HoldsBracket(TestCall(code, code[tested[x]].n, r.env).out)
    THEN NoIssues
    ELSE [raised |-> FALSE, issues |-> DynamicIssues(code, tested, 1, r.env)]

\* Stages 3 to 5 of inspect_and_test.
DynamicStage(code, tested) ==
    IF tested = <<>> \/ ReturnOutside(code, 1, <<>>) THEN NoIssues
    ELSE TestOutcome(code, tested, Interpret(code, 1, Builtins, <<>>, -1, "0x1"))

\* Stage 2 of inspect_and_test and what follows it.
StaticStage(code, static_issues) ==
    IF static_issues # <<>> THEN [raised |-> FALSE, issues |-> static_issues]
    ELSE DynamicStage(code, TestedDefs(code, 1))

FastStage(code, fast_issues) ==
    IF fast_issues # <<>> THEN [raised |-> FALSE, issues |-> fast_issues]
    ELSE IF ~Parses(code) THEN NoIssues
    ELSE StaticStage(code, detect_factorial_base_case_heuristic(code)
                           \o detect_shadowing_builtins(code)
                           \o detect_unreachable_code(code))

\* inspect_and_test(code): its issues, or that it raised.
inspect_and_test(code) == FastStage(code, detect_known_patterns(code))

\* The dict inspect_and_test starts from.
EmptyResult == [issues |-> <<>>, tests |-> <<>>, test_results |-> <<>>]

\* result["note"] = note
WithNote(result, note) ==
    [key \in DOMAIN result \cup {"note"} |-> IF key = "note" THEN note ELSE result[key]]

\* The registered detectors over a text that parses, one after the other.
StaticIssues(code) ==
    detect_factorial_base_case_heuristic(code) \o detect_shadowing_builtins(code)
        \o detect_unreachable_code(code)

\* inspect_and_test leaves with the dict as it stands.
Returned(ran, result) == [ran |-> ran, raised |-> FALSE, result |-> result]

\* As InspectStages, with the registered detectors run behind a fast match too.
InspectStagesStaticBehindFast(code) ==
    LET fast_issues == detect_known_patterns(code)
        static_issues == IF Parses(code) THEN StaticIssues(code) ELSE <<>>
    IN  Returned(<<"fast", "static">>,
                 WithNote([EmptyResult EXCEPT !.issues = fast_issues \o static_issues],
                          "Known logical pattern detected (fast)."))

\* inspect_and_test(code) stage by stage: the stages it enters, in the order
\* it enters them, and the dict it holds when it leaves, by a return or by the
\* exception of analyze_test_results.  tests holds the tested definitions and
\* test_results one entry for each: what the entries say is in DynamicStage.
InspectStages(code) ==
    LET fast_issues == detect_known_patterns(code)
        tree == Parses(code)
        static_issues == IF tree THEN StaticIssues(code) ELSE <<>>
        entered == IF tree THEN <<"fast", "static">> ELSE <<"fast">>
        tests == IF tree THEN TestedDefs(code, 1) ELSE <<>>
        dynamic == DynamicStage(code, tests)
        tested == [EmptyResult EXCEPT !.tests = tests]
        run == [tested EXCEPT !.test_results = [x \in 1..Len(tests) |-> "result"]]
    IN  IF fast_issues # <<>>
        THEN Returned(<<"fast">>, WithNote([EmptyResult EXCEPT !.issues = fast_issues],
                                           "Known logical pattern detected (fast)."))
        ELSE IF static_issues # <<>>
        THEN Returned(entered, WithNote([EmptyResult EXCEPT !.issues = static_issues],
                                        "Static logical issues detected."))
        ELSE IF tests = <<>>
        THEN Returned(Append(entered, "tests"),
                      WithNote(tested, "No tests generated. No static issues found."))
        ELSE IF dynamic.raised
        THEN [ran |-> entered \o <<"tests", "dynamic">>, raised |-> TRUE, result |-> run]
        ELSE IF dynamic.issues # <<>>
        THEN Returned(entered \o <<"tests", "dynamic">>,
                      WithNote([run EXCEPT !.issues = dynamic.issues],
                               "Dynamic tests identified logical issues."))
        ELSE Returned(entered \o <<"tests", "dynamic">>,
                      WithNote(run, "No logical issues detected statically or dynamically."))

\* The lines from j on with each first return 0 behind a definition of
\* factorial rewritten to return 1.
RECURSIVE PatchAfterDef(_, _, _)
PatchAfterDef(code, j, armed) ==
    IF j > Len(code) THEN <<>>
    ELSE IF armed /\ code[j].k = "ret" /\ code[j].n = "0"
    THEN <<L(code[j].ind, "ret", "1")>> \o PatchAfterDef(code, j + 1, FALSE)
    ELSE <<code[j]>>
         \o PatchAfterDef(code, j + 1,
                          armed \/ (code[j].k = "def" /\ code[j].n = "factorial"))

\* re.sub of the pattern of one patch over the whole text.
ApplyPatch(code, patch) ==
    IF patch = "return0_after_def" THEN PatchAfterDef(code, 1, FALSE)
    ELSE
    [j \in 1..Len(code) |->
        IF patch = "return0" /\ code[j].k = "ret" /\ code[j].n = "0"
        THEN L(code[j].ind, "ret", "1")
        ELSE IF patch = "memo0" /\ code[j].k = "ret" /\ code[j].n = "memo[0]"
        THEN L(code[j].ind, "ret", "memo[n]")
        ELSE code[j]]

RECURSIVE _apply_logical_patches(_, _)
_apply_logical_patches(code, issues) ==
    IF issues = <<>> THEN code
    ELSE _apply_logical_patches(
             IF Head(issues).patch = "none" THEN code ELSE ApplyPatch(code, Head(issues).patch),
             Tail(issues))

(***************************************************************************)
(* fixer/ast_fixer.py.  The healing passes read the characters of the      *)
(* text; on the line kinds of the model they come down to the operators    *)
(* below.  Where no line kind can hold the result of a pass, the pass has  *)
(* no value (a CASE without a matching arm).  A line with a colon added    *)
(* behind it has the kind of the line followed by ":", a subscript with    *)
(* commas added the kind "sub,"; no text that holds one of them parses.    *)
(***************************************************************************)
\* fixer/ast_rules.py: the names of the model that FUNC_TO_MODULE maps, both
\* to math; PREFERRED_MODULES puts math first for sqrt.
FUNC_TO_MODULE == {"sqrt", "factorial"}

\* Closers for the openers left on the stack go behind the last character.
fix_unclosed_brackets(code) ==
    LET d == OpenerDepth(code, 1, 0)
        last == Last(code)
    IN  CASE d = 0 /\ \A j \in 1..Len(code) : code[j].k # "quoted" -> code
          [] d > 0 /\ IsBlank(last) -> Front(code) \o <<L(last.ind, "close", Digits[d])>>
          [] d > 0 /\ last.k = "close" ->
                 Front(code) \o <<L(last.ind, "close", Digits[CloserCount(last) + d])>>
          [] d = 1 /\ last.k = "open" -> Front(code) \o <<L(last.ind, "list", last.n)>>

\* The closers without an opener are dropped, from the line j on.
RECURSIVE DropUnmatched(_, _, _)
DropUnmatched(t, j, depth) ==
    IF j > Len(t) THEN <<>>
    ELSE LET l == t[j]
             keep == Min2(CloserCount(l), depth)
         IN  IF l.k = "open" THEN <<l>> \o DropUnmatched(t, j + 1, depth + 1)
             ELSE IF l.k = "close"
             THEN << IF keep = 0 THEN L(l.ind, "blank", "")
                     ELSE L(l.ind, "close", Digits[keep]) >>
                  \o DropUnmatched(t, j + 1, depth - keep)
             ELSE <<l>> \o DropUnmatched(t, j + 1, depth)

fix_backward_bracket_mismatch(code) == DropUnmatched(code, 1, 0)

\* Every line kind holds an even number of each quote character.
fix_unclosed_strings(code) == code

\* The names that begin with one of the keywords "else", "try", "except",
\* "finally", which the pass matches without a space behind them.
KeywordPrefixed == {"exceptions"}

\* The kinds of the lines that begin with their name.
NameFirst == {"assign", "list", "call"}

Coloned(k) ==
    CASE k = "assign" -> "assign:"
      [] k = "list" -> "list:"
      [] k = "call" -> "call:"

\* Line 145: a line that begins with a keyword and does not end in a colon.
AddColon(l) ==
    IF l.k \in NameFirst /\ l.n \in KeywordPrefixed THEN [l EXCEPT !.k = Coloned(l.k)] ELSE l

EndsWithColon(l) == l.k \in {"def", "with", "assign:", "list:", "call:"}

\* Lines 142-153 from the line j on: the colon, then four spaces in front
\* of the next line when it is not blank and begins with no space.
RECURSIVE ColonsFrom(_, _)
ColonsFrom(lines, j) ==
    IF j > Len(lines) THEN <<>>
    ELSE LET line == AddColon(lines[j])
             indent == /\ EndsWithColon(line) /\ j + 1 <= Len(lines)
                       /\ ~IsBlank(lines[j + 1]) /\ lines[j + 1].ind = 0
             next == IF indent THEN [lines EXCEPT ![j + 1].ind = 1] ELSE lines
         IN  <<line>> \o ColonsFrom(next, j + 1)

fix_missing_colons_and_indent(code) == ColonsFrom(code, 1)

\* fix_list puts commas between the tokens of "[0 + 1]"; "[1, 2]", "[0]" and
\* "[n]" it leaves alone.
fix_missing_commas(code) ==
    [j \in 1..Len(code) |-> IF code[j].k = "sub" THEN [code[j] EXCEPT !.k = "sub,"] ELSE code[j]]

\* No text of the model ends in "(".
fix_incomplete_calls(code) == code

\* No text of the model ends in "=".
fix_broken_assignments(code) == code

\* The names that end in "and" or "or", and what is left of them without it.
OperatorSuffixed == {"calculator"}

WithoutSuffix(n) == CASE n = "calculator" -> "calculat"

\* The operator at the end of the text goes, with the white space behind it:
\* the end of a name when the last line that is not blank ends in its name.
fix_trailing_operators(code) ==
    LET t == rstrip(code)
    IN  IF t # <<>> /\ Last(t).k \in {"import", "from", "ret"} /\ Last(t).n \in OperatorSuffixed
        THEN Front(t) \o <<[Last(t) EXCEPT !.n = WithoutSuffix(Last(t).n)]>>
        ELSE code

safe_parse(code) == Parses(code)

\* No line of the model ends in an operator or in "(", and none begins with
\* white space that the pass would strip.
heal_broken_expressions(code) == code

\* The names a line binds, for extract_defined.
Defines(l) ==
    CASE l.k = "def" -> {l.n, "n"}
      [] l.k \in {"assign", "list", "call", "qcall", "open", "import", "from"} -> {l.n}
      [] OTHER -> {}

\* The names a line reads, for collect_unresolved.
Loads(l) ==
    CASE l.k \in {"expr", "with", "sub", "ret"} -> {l.n}
      [] l.k = "call" -> {"sqrt"}
      [] l.k \in {"qexpr", "qcall"} -> {"math"}
      [] OTHER -> {}

extract_defined(code) == UNION {Defines(code[j]) : j \in 1..Len(code)}

collect_unresolved(code, defined) == UNION {Loads(code[j]) : j \in 1..Len(code)} \ defined

\* The root modules the text imports.
ImportedModules(code) ==
    {code[j].n : j \in {x \in 1..Len(code) : code[x].k = "import"}}
        \cup (IF \E j \in 1..Len(code) : code[j].k = "from" THEN {"math"} ELSE {})

\* The first line that is neither blank nor a comment in column 0.
RECURSIVE FirstStatement(_, _)
FirstStatement(lines, idx) ==
    IF idx <= Len(lines) /\ (IsBlank(lines[idx]) \/ (IsComment(lines[idx]) /\ lines[idx].ind = 0))
    THEN FirstStatement(lines, idx + 1)
    ELSE idx

\* The block of imports ends in a newline of its own: an empty line follows it.
insert_imports(code, new_imports) ==
    LET idx == FirstStatement(code, 1)
    IN  Slice(code, 1, idx - 1)
            \o [j \in 1..Len(new_imports) |-> L(0, "from", new_imports[j])]
            \o <<Blank>> \o Slice(code, idx, Len(code))

\* The orders in which a loop over a set of strings may meet its members.
Orders(names) ==
    {o \in [1..Cardinality(names) -> names] : \A a, b \in DOMAIN o : a # b => o[a] # o[b]}

\* Prefixer: a line that reads a name of used reads it from math; "qexpr"
\* is print(math.n) and "qcall" is n = math.sqrt(16).
PrefixLine(l, used) ==
    CASE l.k = "expr" /\ l.n \in used -> [l EXCEPT !.k = "qexpr"]
      [] l.k = "call" /\ "sqrt" \in used -> [l EXCEPT !.k = "qcall"]
      [] Loads(l) \cap used = {} -> l

\* ast.unparse on the lines from j on: no comment and no empty line is
\* left, and an empty line stands in front of every function but the first
\* statement.
RECURSIVE Unparse(_, _, _)
Unparse(lines, j, first) ==
    IF j > Len(lines) THEN <<>>
    ELSE IF IsBlank(lines[j]) \/ IsComment(lines[j]) THEN Unparse(lines, j + 1, first)
    ELSE (IF lines[j].k = "def" /\ ~first THEN <<Blank, lines[j]>> ELSE <<lines[j]>>)
             \o Unparse(lines, j + 1, FALSE)

\* Lines 250-276.  The unresolved names FUNC_TO_MODULE knows are read from
\* math when math is among the modules the text imports, in whatever form:
\* the names are prefixed and the tree is unparsed.  Else their imports go
\* in, in the order the set of names yields them.
fix_imports_and_names(code) ==
    LET used == collect_unresolved(code, extract_defined(code)) \cap FUNC_TO_MODULE
    IN  CASE used = {} -> {code}
          [] used # {} /\ "math" \notin ImportedModules(code) ->
                 {insert_imports(code, o) : o \in Orders(used)}
          [] used # {} /\ "math" \in ImportedModules(code) ->
                 {Unparse([j \in 1..Len(code) |-> PrefixLine(code[j], used)], 1, TRUE)}

\* The eight passes of lines 52-59, in their order.
SyntaxFixes(code) ==
    fix_trailing_operators(fix_broken_assignments(fix_incomplete_calls(fix_missing_commas(
        fix_missing_colons_and_indent(fix_unclosed_strings(
            fix_backward_bracket_mismatch(fix_unclosed_brackets(code))))))))

\* The sources try_ast_fix may return.  error_type is not read.
AstFixed(code) ==
    LET healed == SyntaxFixes(code)
        again == heal_broken_expressions(healed)
    IN  IF safe_parse(healed) THEN fix_imports_and_names(healed)
        ELSE IF safe_parse(again) THEN fix_imports_and_names(again)
        ELSE {IF again = <<>> THEN code ELSE again}

\* The eight passes with a parse behind each: the text behind the first pass
\* that leaves a text that parses, the text behind the last one when none does.
StagedSyntaxFixes(code) ==
    LET s1 == fix_unclosed_brackets(code)
        s2 == fix_backward_bracket_mismatch(s1)
        s3 == fix_unclosed_strings(s2)
        s4 == fix_missing_colons_and_indent(s3)
        s5 == fix_missing_commas(s4)
        s6 == fix_incomplete_calls(s5)
        s7 == fix_broken_assignments(s6)
        s8 == fix_trailing_operators(s7)
    IN  IF safe_parse(s1) THEN s1 ELSE IF safe_parse(s2) THEN s2
        ELSE IF safe_parse(s3) THEN s3 ELSE IF safe_parse(s4) THEN s4
        ELSE IF safe_parse(s5) THEN s5 ELSE IF safe_parse(s6) THEN s6
        ELSE IF safe_parse(s7) THEN s7 ELSE s8

\* What a driver that parses behind each pass may return.
StagedAstFixed(code) ==
    LET healed == StagedSyntaxFixes(code)
        again == heal_broken_expressions(healed)
    IN  IF safe_parse(healed) THEN fix_imports_and_names(healed)
        ELSE IF safe_parse(again) THEN fix_imports_and_names(again)
        ELSE {IF again = <<>> THEN code ELSE again}

(***************************************************************************)
(* The two bracket passes on the characters themselves: a text is a        *)
(* sequence of characters, "a" standing for every character that is no     *)
(* bracket.                                                                *)
(***************************************************************************)
OpenerChars == {"(", "[", "{"}

CloserChars == {")", "]", "}"}

\* BR of fix_unclosed_brackets: the closer of an opener.
BR(ch) == CASE ch = "(" -> ")" [] ch = "[" -> "]" [] ch = "{" -> "}"

\* stack[::-1]
Reversed(stack) == [j \in 1..Len(stack) |-> stack[Len(stack) + 1 - j]]

\* Lines 109-115: the stack of the closers expected behind the characters from j on.
RECURSIVE ExpectedClosers(_, _, _)
ExpectedClosers(code, j, stack) ==
    IF j > Len(code) THEN stack
    ELSE IF code[j] \in OpenerChars THEN ExpectedClosers(code, j + 1, Append(stack, BR(code[j])))
    ELSE IF code[j] \in CloserChars /\ stack # <<>> /\ Last(stack) = code[j]
    THEN ExpectedClosers(code, j + 1, Front(stack))
    ELSE ExpectedClosers(code, j + 1, stack)

\* fix_unclosed_brackets that appends the closers in the order of the stack.
FixUnclosedCharsStackOrder(code) == code \o ExpectedClosers(code, 1, <<>>)

\* fix_unclosed_brackets on characters.
FixUnclosedChars(code) == code \o Reversed(ExpectedClosers(code, 1, <<>>))

\* Lines 296-307: the characters from j on without the closers that do not
\* match the opener on top of the stack.
RECURSIVE KeepMatched(_, _, _)
KeepMatched(code, j, stack) ==
    IF j > Len(code) THEN <<>>
    ELSE IF code[j] \in OpenerChars
    THEN <<code[j]>> \o KeepMatched(code, j + 1, Append(stack, code[j]))
    ELSE IF code[j] \in CloserChars
    THEN (IF stack # <<>> /\ BR(Last(stack)) = code[j]
          THEN <<code[j]>> \o KeepMatched(code, j + 1, Front(stack))
          ELSE KeepMatched(code, j + 1, stack))
    ELSE <<code[j]>> \o KeepMatched(code, j + 1, stack)

\* fix_backward_bracket_mismatch on characters.
FixBackwardChars(code) == KeepMatched(code, 1, <<>>)

\* The stack discipline on the characters from j on: every closer pops its
\* opener and no opener is left.
RECURSIVE BalancedFrom(_, _, _)
BalancedFrom(code, j, stack) ==
    IF j > Len(code) THEN stack = <<>>
    ELSE IF code[j] \in OpenerChars THEN BalancedFrom(code, j + 1, Append(stack, code[j]))
    ELSE IF code[j] \in CloserChars
    THEN stack # <<>> /\ BR(Last(stack)) = code[j] /\ BalancedFrom(code, j + 1, Front(stack))
    ELSE BalancedFrom(code, j + 1, stack)

Balanced(code) == BalancedFrom(code, 1, <<>>)

\* No source of the model makes a pass raise.
try_ast_fix(error_type, code) == {[raised |-> FALSE, text |-> t] : t \in AstFixed(code)}

(***************************************************************************)
(* fixer/llm_fixer.py: generate_llm_fix answers from outside, with the     *)
(* empty text or one of the texts below.                                   *)
(***************************************************************************)
LlmOutputs ==
    { <<>>,
      \* the whole file, corrected
      << L(0, "def", "factorial"), L(1, "ret", "1"), L(0, "expr", "factorial"), Blank >>,
      \* one function alone
      << L(0, "def", "fib"), L(1, "ret", "memo[n]"), Blank >>,
      \* a function below a block, with a body re.sub rejects as a template
      << L(0, "with", "lock"), L(1, "assign", "x"), L(1, "expr", "x"), L(1, "expr", "x"),
         L(0, "def", "fib"), L(1, "esc", ""), Blank >>,
      \* a function below a block, followed by its call
      << L(0, "with", "lock"), L(1, "assign", "x"), L(1, "expr", "x"),
         L(0, "def", "factorial"), L(1, "ret", "1"), L(0, "expr", "factorial"), Blank >>,
      \* a tested function, one printed integer and an unbound name
      << L(0, "def", "fib"), L(1, "ret", "1"), L(0, "assign", "x"), L(0, "expr", "x"),
         L(0, "expr", "y"), Blank >>,
      \* the program with the assignment the detector reports, as it was submitted
      << L(0, "assign", "values"), L(0, "expr", "values") >> }

generate_llm_fix == LlmOutputs

(***************************************************************************)
(* iterations/iteration_report.py, without the time stamps                 *)
(***************************************************************************)
CreateIterationReportNextIndex(iteration, code, stdout, stderr, fix_method, error_type, success) ==
    [iteration |-> iteration + 1, fix_method |-> fix_method, error_type |-> error_type,
     success |-> success, stdout |-> stdout, stderr |-> stderr, code_snapshot |-> code]

create_iteration_report(iteration, code, stdout, stderr, fix_method, error_type, success) ==
    [iteration |-> iteration, fix_method |-> fix_method, error_type |-> error_type,
     success |-> success, stdout |-> stdout, stderr |-> stderr, code_snapshot |-> code]

save_full_report(iteration_reports, change_log, final_status) ==
    [final_status |-> final_status, total_iterations |-> Len(iteration_reports),
     iterations |-> iteration_reports, changes |-> change_log]


(***************************************************************************)
(* run_repair_loop: the two fix stages as functions of the LLM's answer.   *)
(* Each hands back the new source, whether an exception escaped, and the   *)
(* texts its calls of merge_llm_result returned.                           *)
(***************************************************************************)
MergeTexts(results) == {r.text : r \in {x \in results : ~x.raised}}

\* The branch taken in iteration 0 when a merge raises.
SemanticExcept(original_code, extracted) ==
    IF extracted # <<>> /\ Len(splitlines(extracted)) > 2 THEN extracted ELSE original_code

\* Iteration 0, from the results of its merges to new_code: m1 is the merge
\* of the raw answer, m2 the merge of the extracted text.
SemanticChoice(original_code, extracted, m1, m2) ==
    LET merged_or_original == IF m1.text # <<>> THEN m1.text ELSE original_code
    IN  IF m1.raised
        THEN [new_code |-> SemanticExcept(original_code, extracted), merged |-> {}]
        ELSE IF m1.text # <<>> /\ normalize_code(m1.text) # normalize_code(original_code)
        THEN [new_code |-> m1.text, merged |-> {m1.text}]
        ELSE IF extracted = <<>>
        THEN [new_code |-> merged_or_original, merged |-> {m1.text}]
        ELSE IF m2.raised
        THEN [new_code |-> SemanticExcept(original_code, extracted), merged |-> {m1.text}]
        ELSE IF m2.text # <<>> /\ normalize_code(m2.text) # normalize_code(original_code)
        THEN [new_code |-> m2.text, merged |-> {m1.text, m2.text}]
        ELSE IF Parses(extracted)
        THEN [new_code |-> extracted, merged |-> {m1.text, m2.text}]
        ELSE [new_code |-> merged_or_original, merged |-> {m1.text, m2.text}]

\* Iteration 0, from the answer of the LLM to new_code.
SemanticMerges(original_code, llm_raw, extracted) ==
    SemanticChoice(original_code, extracted,
                   merge_llm_result(original_code, llm_raw, TRUE),
                   merge_llm_result(original_code, extracted, TRUE))

SemanticFix(original_code, llm_raw) ==
    SemanticMerges(original_code, llm_raw, extract_code_from_llm(llm_raw))

\* The fallback of the main loop when no merge changed the source.
NoOpFallback(old_code, extracted, iteration) == ensure_diff(old_code, old_code, iteration)

\* The LLM branch of the main loop, from the results of its merges to
\* new_code: merged is the merge of the raw answer, merged_from_extracted and
\* merged_try the two merges of the extracted text.
LlmChoice(old_code, new_code, iteration, extracted, merged, merged_from_extracted, merged_try) ==
    LET fallback == NoOpFallback(old_code, extracted, iteration)
        Result(text, results) ==
            [new_code |-> text, crashed |-> FALSE, merged |-> MergeTexts(results)]
    IN  IF merged.raised THEN [new_code |-> new_code, crashed |-> TRUE, merged |-> {}]
        ELSE IF normalize_code(merged.text) # normalize_code(new_code)
        THEN Result(merged.text, {merged})
        ELSE IF extracted # <<>> /\ normalize_code(extracted) # normalize_code(new_code)
        THEN (IF merged_from_extracted.raised
              THEN [new_code |-> new_code, crashed |-> TRUE, merged |-> {merged.text}]
              ELSE IF normalize_code(merged_from_extracted.text) # normalize_code(new_code)
              THEN Result(merged_from_extracted.text, {merged, merged_from_extracted})
              ELSE IF Parses(extracted) /\ ~merged_try.raised
                      /\ normalize_code(merged_try.text) # normalize_code(new_code)
              THEN Result(merged_try.text, {merged, merged_from_extracted, merged_try})
              ELSE Result(fallback, {merged, merged_from_extracted}))
        ELSE Result(fallback, {merged})

\* The LLM branch of the main loop, from the answer of the LLM to new_code.
LlmMerges(old_code, new_code, llm_raw, iteration, extracted) ==
    LlmChoice(old_code, new_code, iteration, extracted,
              merge_llm_result(new_code, llm_raw, FALSE),
              merge_llm_result(new_code, extracted, TRUE),
              merge_llm_result(new_code, extracted, TRUE))

LlmFix(old_code, new_code, llm_raw, iteration) ==
    LlmMerges(old_code, new_code, llm_raw, iteration, extract_code_from_llm(llm_raw))

(***************************************************************************)
(* State.  m_* is one call of merge_llm_result: its arguments, its         *)
(* position and its outcome.  The other variables are one run of           *)
(* run_repair_loop: its arguments, its locals under their names, pc for    *)
(* its position, report for the report it saves and returned for the       *)
(* source it returns.  Three more record what the run did: iter_source is  *)
(* the source the current iteration received, merged_texts the texts the   *)
(* merges of the last fix returned, last_run the source of the last run of *)
(* the sandbox and the class parse_error gave its diagnostic.              *)
(***************************************************************************)
VARIABLES m_pc, m_base, m_llm_out, m_allow, m_result

VARIABLES pc, original_code, user_prompt, max_iterations, max_iter, code, i, iteration_reports, changeLog,
          iteration_start_output, error_type, full_err, logic_issues, method,
          applied_method, old_code, new_code, report, returned

VARIABLES iter_source, merged_texts, last_run, llm_raw

\* One call of parse_error and of choose_fix_method: the diagnostic, the
\* kind, the method; one or two calls of a fixer on a text.
VARIABLES e_pc, e_stderr, e_kind, e_method

VARIABLES t_pc, t_code, t_first, t_second

mvars == <<m_pc, m_base, m_llm_out, m_allow, m_result>>

cvars == <<pc, original_code, user_prompt, max_iterations, max_iter, code, i, iteration_reports, changeLog,
           iteration_start_output, error_type, full_err, logic_issues, method,
           applied_method, old_code, new_code, report, returned, iter_source,
           merged_texts, last_run, llm_raw>>

fvars == <<e_pc, e_stderr, e_kind, e_method, t_pc, t_code, t_first, t_second>>

vars == <<e_pc, e_stderr, e_kind, e_method, t_pc, t_code, t_first, t_second, m_pc, m_base, m_llm_out, m_allow, m_result, pc, original_code, user_prompt, max_iterations, max_iter, code, i, iteration_reports, changeLog, iteration_start_output, error_type, full_err, logic_issues, method, applied_method, old_code, new_code, report, returned, iter_source, merged_texts, last_run, llm_raw>>

(***************************************************************************)
(* Inputs of the merge: every text over a small alphabet up to a length,   *)
(* and families of larger texts that exercise the numeric limits.          *)
(***************************************************************************)
MaxBaseLen == 3

MaxOutLen == 3

\* The largest number of import lines an LLM output carries.
MaxFlood == 9

ModNames == <<"m1", "m2", "m3", "m4", "m5", "m6", "m7", "m8", "m9", "m10", "m11", "m12">>

\* All sequences over alphabet of length at most n.
SeqsUpTo(alphabet, n) == UNION {[1..k -> alphabet] : k \in 0..n}

BaseAlphabet == {L(0, "def", "factorial"), L(1, "ret", "0"), L(0, "assign", "x"), Blank}

OutAlphabet == {L(0, "def", "factorial"), L(1, "ret", "1"), L(0, "prose", ""), Blank}

\* k import lines at indentation ind.
ImportLines(ind, k) == [j \in 1..k |-> L(ind, "import", ModNames[j])]

\* Scenario 6 of the specification in small: a file with a helper, the function and a caller.
LongBase ==
    << L(0, "assign", "x"), L(0, "def", "factorial"), L(1, "expr", "n"), L(1, "expr", "n"),
       L(1, "ret", "0"), L(0, "expr", "factorial"), Blank >>

SpecialBases ==
    { LongBase,
      << L(0, "def", "factorial"), L(1, "ret", "0"), Blank, Blank, L(0, "assign", "y"),
         L(0, "expr", "y"), Blank >>,
      << L(0, "open", "xs"), L(0, "expr", "xs") >>,
      << L(0, "import", "m1"), L(0, "def", "factorial"), L(1, "ret", "0"), Blank >> }

SpecialOuts ==
    \* a function alone
    { << L(0, "def", "factorial"), L(1, "ret", "1"), Blank >>,
      \* a function whose body re.sub rejects as a template, before prose
      << L(0, "def", "factorial"), L(1, "esc", ""), L(0, "prose", "") >>,
      << L(0, "def", "factorial"), L(1, "esc", ""), Blank >>,
      \* a block header the prefix scan does not know, so that the scan cuts into the block
      << L(0, "with", "lock"), L(1, "assign", "x"), L(1, "expr", "x"), Blank >>,
      \* a definition nested in a block, and one nested too deep
      << L(0, "with", "lock"), L(1, "def", "factorial"), L(2, "ret", "1"), L(1, "assign", "x"),
         Blank >>,
      << L(0, "def", "factorial"), L(2, "ret", "1"), L(1, "ret", "1"), Blank >>,
      \* prose in front of a file
      << L(0, "prose", ""), L(0, "assign", "x"), L(0, "def", "factorial"), L(1, "ret", "1"),
         L(0, "expr", "factorial"), Blank >>,
      \* a function followed by blank-separated statements, then prose
      << L(0, "def", "factorial"), L(1, "ret", "1"), Blank, L(0, "assign", "z"), Blank,
         L(0, "def", "helper"), L(1, "ret", "1"), L(0, "prose", "") >> }
    \cup
    \* files of k imports
    { ImportLines(0, k) \o <<L(0, "assign", "x"), Blank>> : k \in 0..MaxFlood }
    \cup
    \* a function that imports k modules in its body, followed by prose
    { <<L(0, "def", "factorial")>> \o ImportLines(1, k) \o <<L(1, "ret", "1"), L(0, "prose", "")>> :
        k \in 0..MaxFlood }
    \cup
    \* the same, as the raw output only the function-level rewrite reads
    { <<L(0, "open", "xs"), L(0, "def", "factorial")>> \o ImportLines(1, k)
        \o <<L(1, "ret", "1"), Blank>> : k \in 0..MaxFlood }

Bases == {Canon(t) : t \in SeqsUpTo(BaseAlphabet, MaxBaseLen)} \cup SpecialBases

Outs == {Canon(t) : t \in SeqsUpTo(OutAlphabet, MaxOutLen)} \cup SpecialOuts

MergeInit ==
    /\ m_pc = "ready"
    /\ m_base \in Bases
    /\ m_llm_out \in Outs
    /\ m_allow = FALSE
    /\ m_result = <<>>

\* A caller invokes merge_llm_result(base, llm_out, allow_full_rewrite).
MergeCall ==
    /\ m_pc = "ready"
    /\ \E allow \in BOOLEAN :
         LET r == merge_llm_result(m_base, m_llm_out, allow) IN
         /\ m_allow' = allow
         /\ m_pc' = IF r.raised THEN "raised" ELSE "returned"
         /\ m_result' = r.text
    /\ UNCHANGED <<m_base, m_llm_out, cvars, fvars>>

(***************************************************************************)
(* One run of run_repair_loop(original_code, user_prompt, max_iterations). *)
(***************************************************************************)
MAX_ITERATIONS == 5

\* The largest max_iterations a caller passes.
MaxIterations == 2

\* The number of main-loop iterations of a run that are followed; a run
\* whose cap is larger is left after that many.
MaxFollowed == 2

Originals ==
    { \* a base case the detector knows and patches
      << L(0, "def", "factorial"), L(1, "ret", "0"), L(0, "expr", "factorial"), Blank >>,
      \* an unclosed literal
      << L(0, "open", "xs"), L(0, "expr", "xs") >>,
      \* the memo bug that conflicts with the name of the function, short and long
      << L(0, "def", "fib"), L(1, "ret", "memo[0]"), Blank >>,
      << L(0, "def", "fib"), L(1, "ret", "memo[0]"), L(0, "assign", "x"), L(0, "expr", "x"),
         L(0, "expr", "x"), Blank >>,
      \* a program without fault
      << L(0, "assign", "x"), L(0, "expr", "x"), Blank >>,
      \* an assignment the detector reports and cannot patch
      << L(0, "assign", "values"), L(0, "expr", "values") >>,
      \* an unbound name
      << L(0, "expr", "y"), Blank >>,
      \* a call of sqrt without its import
      << L(0, "call", "x"), Blank >>,
      \* a tested function, one printed integer and an unbound name
      << L(0, "def", "fib"), L(1, "ret", "1"), L(0, "assign", "x"), L(0, "expr", "x"),
         L(0, "expr", "y"), Blank >> }

\* No request, a request of one space, a request.
Prompts == {"", " ", "fix it"}

\* str.strip of a request.
StripPrompt(prompt) == IF prompt = " " THEN "" ELSE prompt

\* user_prompt.strip() is not empty.
HasPrompt(prompt) == StripPrompt(prompt) # ""

\* What a caller passes as max_iterations: nothing (None), or a number.
CallerCaps == {<<>>} \cup {<<n>> : n \in 0..MaxIterations}

\* bool(max_iterations) is False: the operand "or" replaces at line 203.
Falsy(cap) == cap = <<>> \/ cap[1] = 0

NoRun == [code |-> <<>>, kind |-> "NOT_RUN"]

NoReport == [final_status |-> "NOT_SAVED", total_iterations |-> 0, iterations |-> <<>>,
             changes |-> <<>>]

CtlInit ==
    /\ pc = "start"
    /\ max_iterations \in CallerCaps
    /\ original_code \in Originals
    /\ user_prompt \in Prompts
    /\ max_iter = (IF Falsy(max_iterations) THEN MAX_ITERATIONS ELSE max_iterations[1])
    /\ code = original_code
    /\ i = 0
    /\ iteration_reports = <<>>
    /\ changeLog = <<>>
    /\ iteration_start_output = <<>>
    /\ error_type = "NONE"
    /\ full_err = {}
    /\ logic_issues = <<>>
    /\ method = "NONE"
    /\ applied_method = "NONE"
    /\ old_code = <<>>
    /\ new_code = <<>>
    /\ report = NoReport
    /\ returned = <<>>
    /\ iter_source = <<>>
    /\ merged_texts = {}
    /\ last_run = NoRun
    /\ llm_raw = <<>>

CtlIdle ==
    /\ pc = "idle"
    /\ original_code = <<>> /\ user_prompt = "" /\ max_iterations = <<>> /\ max_iter = 0
    /\ code = <<>> /\ i = 0
    /\ iteration_reports = <<>> /\ changeLog = <<>> /\ iteration_start_output = <<>>
    /\ error_type = "NONE" /\ full_err = {} /\ logic_issues = <<>> /\ method = "NONE"
    /\ applied_method = "NONE" /\ old_code = <<>> /\ new_code = <<>> /\ report = NoReport
    /\ returned = <<>> /\ iter_source = <<>> /\ merged_texts = {} /\ last_run = NoRun
    /\ llm_raw = <<>>

MergeIdle ==
    /\ m_pc = "idle" /\ m_base = <<>> /\ m_llm_out = <<>> /\ m_allow = FALSE /\ m_result = <<>>

ErrIdle == e_pc = "idle" /\ e_stderr = {} /\ e_kind = "NONE" /\ e_method = "NONE"

TextIdle == t_pc = "idle" /\ t_code = <<>> /\ t_first = <<>> /\ t_second = <<>>

\* Lines 251-277: the change log, the record and the report of iteration 0.
SaveSemanticFix(fixed, merged, diff_entries) ==
    /\ new_code' = fixed
    /\ merged_texts' = merged
    /\ changeLog' = diff_entries
    /\ report' = save_full_report(
                     <<create_iteration_report(0, fixed, <<>>, {}, "LLM", "SEMANTIC", TRUE)>>,
                     diff_entries, "SUCCESS")
    /\ returned' = fixed

FinishSemanticFix(fix) ==
    SaveSemanticFix(fix.new_code, fix.merged,
                    compute_changes(original_code, fix.new_code, 0, "LLM", "SEMANTIC"))

\* Lines 208-277: the semantic pre-pass, iteration 0.
SemanticPrePass ==
    /\ pc = "start"
    /\ detect_semantic_conflicts(original_code)
    /\ \E answer \in generate_llm_fix :
         /\ llm_raw' = answer
         /\ FinishSemanticFix(SemanticFix(original_code, answer))
    /\ pc' = "done"
    /\ UNCHANGED <<original_code, user_prompt, max_iterations, max_iter, code, i, iteration_reports,
                   iteration_start_output, error_type, full_err, logic_issues, method,
                   applied_method, old_code, iter_source, last_run, mvars, fvars>>

\* Line 283: no conflict, the loop starts at iteration 1.
EnterLoop ==
    /\ pc = "start"
    /\ ~detect_semantic_conflicts(original_code)
    /\ pc' = "loop"
    /\ i' = 1
    /\ UNCHANGED <<original_code, user_prompt, max_iterations, max_iter, code, iteration_reports, changeLog,
                   iteration_start_output, error_type, full_err, logic_issues, method,
                   applied_method, old_code, new_code, report, returned, iter_source,
                   merged_texts, last_run, llm_raw, mvars, fvars>>

\* Lines 299-305: no error and no request, the run ends in success.
EarlySuccess(run, err) ==
    /\ iteration_reports' =
           Append(iteration_reports,
                  create_iteration_report(i, code, run.stdout, run.stderr, "NONE", err, TRUE))
    /\ report' = save_full_report(iteration_reports', changeLog, "SUCCESS")
    /\ returned' = code
    /\ pc' = "done"
    /\ UNCHANGED <<code, method, applied_method, old_code, new_code>>

\* Lines 308-324: the method, and the source behind pre-fix SSR and the patches.
PrepareFix(chosen, patched) ==
    /\ method' = chosen
    /\ applied_method' = chosen
    /\ code' = patched
    /\ old_code' = patched
    /\ new_code' = patched
    /\ pc' = "fix"
    /\ UNCHANGED <<iteration_reports, report, returned>>

\* Lines 316-320: pre-fix SSR, then the patches of the issues of a LOGICAL error.
PreFix(err, issues, after_ssr) ==
    IF err = "LOGICAL" THEN _apply_logical_patches(after_ssr, issues) ELSE after_ssr

\* The selection of lines 308-313 without the test of the request.
SelectMethodIgnoringPrompt(err) ==
    IF err = "LOGICAL" THEN "LLM"
    ELSE choose_fix_method(err)

\* Lines 308-313
SelectMethod(err) ==
    IF HasPrompt(user_prompt) THEN "LLM"
    ELSE IF err = "LOGICAL" THEN "LLM"
    ELSE choose_fix_method(err)

\* Lines 291-324 behind the run of the sandbox and the two classifications.
Classified(run, runtime_error, issues, err) ==
    /\ iteration_start_output' = run.stdout
    /\ full_err' = IF runtime_error = "NONE" THEN {} ELSE run.stderr
    /\ logic_issues' = issues
    /\ error_type' = err
    /\ iter_source' = code
    /\ last_run' = [code |-> code, kind |-> runtime_error]
    /\ IF err = "NONE" /\ ~HasPrompt(user_prompt)
       THEN EarlySuccess(run, err)
       ELSE PrepareFix(SelectMethod(err), PreFix(err, issues, apply_ssr_fix(code)))

\* As Detected, with the class of the run kept whatever the detector reports.
DetectedIgnoringIssues(run, runtime_error, logic_info) ==
    IF logic_info.raised
    THEN /\ pc' = "crashed"
         /\ UNCHANGED <<code, iteration_reports, iteration_start_output, error_type, full_err,
                        logic_issues, method, applied_method, old_code, new_code, report,
                        returned, iter_source, last_run>>
    ELSE Classified(run, runtime_error, logic_info.issues, runtime_error)

\* Line 296: issues of the logical detector make the error LOGICAL.  An
\* exception of the detector escapes the loop, and no report is saved.
Detected(run, runtime_error, logic_info) ==
    IF logic_info.raised
    THEN /\ pc' = "crashed"
         /\ UNCHANGED <<code, iteration_reports, iteration_start_output, error_type, full_err,
                        logic_issues, method, applied_method, old_code, new_code, report,
                        returned, iter_source, last_run>>
    ELSE Classified(run, runtime_error, logic_info.issues,
                    IF logic_info.issues # <<>> THEN "LOGICAL" ELSE runtime_error)

\* Lines 287-324: run, classify, leave on success, else choose the method and pre-fix.
BeginIteration ==
    /\ pc = "loop"
    /\ i <= max_iter
    /\ i <= MaxFollowed
    /\ \E run \in run_in_sandbox(code) :
           Detected(run, parse_error(run.stderr), inspect_and_test(code))
    /\ UNCHANGED <<original_code, user_prompt, max_iterations, max_iter, i, changeLog, merged_texts, llm_raw,
                   mvars, fvars>>

\* Lines 385-395 behind post-fix SSR: the change log.
TrackChanges(after_ssr, used_method, merged) ==
    /\ pc' = "validate"
    /\ new_code' = after_ssr
    /\ method' = used_method
    /\ applied_method' = used_method
    /\ merged_texts' = merged
    /\ changeLog' =
           IF normalize_code(after_ssr) # normalize_code(old_code)
           THEN changeLog \o compute_changes(old_code, after_ssr, i, used_method, error_type)
           ELSE changeLog

\* Lines 385-395 behind a fix: post-fix SSR and the change log; an exception
\* that escaped the fix ends the run without a report.
FinishFix(fixed, used_method, merged, crashed) ==
    IF crashed
    THEN /\ pc' = "crashed"
         /\ UNCHANGED <<new_code, method, applied_method, changeLog, merged_texts>>
    ELSE TrackChanges(apply_ssr_fix(fixed), used_method, merged)

\* Lines 329-339: the AST fixer changes the source.
ApplyAstFix ==
    /\ pc = "fix"
    /\ method = "AST"
    /\ \E patched \in try_ast_fix(error_type, new_code) :
         /\ ~patched.raised
         /\ normalize_code(patched.text) # normalize_code(new_code)
         /\ FinishFix(patched.text, "AST", {}, FALSE)
    /\ UNCHANGED <<original_code, user_prompt, max_iterations, max_iter, code, i, iteration_reports,
                   iteration_start_output, error_type, full_err, logic_issues, old_code,
                   report, returned, iter_source, last_run, llm_raw, mvars, fvars>>

FinishLlmFix(fix) == FinishFix(fix.new_code, "LLM", fix.merged, fix.crashed)

\* Lines 341-382: the LLM fixer, chosen first or after an AST fixer that
\* raised or changed nothing.
ApplyLlmFix ==
    /\ pc = "fix"
    /\ \/ method = "LLM"
       \/ /\ method = "AST"
          /\ \E patched \in try_ast_fix(error_type, new_code) :
                patched.raised \/ normalize_code(patched.text) = normalize_code(new_code)
    /\ \E answer \in generate_llm_fix :
         /\ llm_raw' = answer
         /\ FinishLlmFix(LlmFix(old_code, new_code, answer, i))
    /\ UNCHANGED <<original_code, user_prompt, max_iterations, max_iter, code, i, iteration_reports,
                   iteration_start_output, error_type, full_err, logic_issues, old_code,
                   report, returned, iter_source, last_run, mvars, fvars>>

\* As Recorded, without line 424: the next iteration starts from the old source.
RecordedKeepingInput(run, parsed, new_err) ==
    /\ iteration_reports' =
           Append(iteration_reports,
                  create_iteration_report(i, new_code, run.stdout, run.stderr, applied_method,
                                          new_err,
                                          validate_iteration(run.stdout, run.stderr, new_err)))
    /\ last_run' = [code |-> new_code, kind |-> parsed]
    /\ IF applied_method = "LLM" /\ new_err = "NONE"
       THEN /\ report' = save_full_report(iteration_reports', changeLog, "SUCCESS")
            /\ returned' = new_code
            /\ pc' = "done"
            /\ UNCHANGED <<code, i>>
       ELSE /\ i' = i + 1
            /\ pc' = "loop"
            /\ UNCHANGED <<code, report, returned>>

\* Lines 410-424: the record of the iteration, then success or the next iteration.
Recorded(run, parsed, new_err) ==
    /\ iteration_reports' =
           Append(iteration_reports,
                  create_iteration_report(i, new_code, run.stdout, run.stderr, applied_method,
                                          new_err,
                                          validate_iteration(run.stdout, run.stderr, new_err)))
    /\ last_run' = [code |-> new_code, kind |-> parsed]
    /\ IF applied_method = "LLM" /\ new_err = "NONE"
       THEN /\ report' = save_full_report(iteration_reports', changeLog, "SUCCESS")
            /\ returned' = new_code
            /\ pc' = "done"
            /\ UNCHANGED <<code, i>>
       ELSE /\ code' = new_code
            /\ i' = i + 1
            /\ pc' = "loop"
            /\ UNCHANGED <<report, returned>>

\* The class of the run, LOGICAL only when issues remain.
RevalidatedIgnoringOutput(run, parsed, logic_info) ==
    IF logic_info.raised
    THEN /\ pc' = "crashed"
         /\ UNCHANGED <<code, i, iteration_reports, report, returned, last_run>>
    ELSE Recorded(run, parsed, IF logic_info.issues # <<>> THEN "LOGICAL" ELSE parsed)

\* Lines 399-406: the class of the run, LOGICAL when the output changed or issues remain.
Revalidated(run, parsed, logic_info) ==
    IF logic_info.raised
    THEN /\ pc' = "crashed"
         /\ UNCHANGED <<code, i, iteration_reports, report, returned, last_run>>
    ELSE Recorded(run, parsed,
                  IF logic_info.issues # <<>> THEN "LOGICAL"
                  ELSE IF run.stdout # iteration_start_output THEN "LOGICAL"
                  ELSE parsed)

\* Lines 398-424: validation, the record of the iteration, success or the next iteration.
Validate ==
    /\ pc = "validate"
    /\ \E run \in run_in_sandbox(new_code) :
           Revalidated(run, parse_error(run.stderr), inspect_and_test(new_code))
    /\ UNCHANGED <<original_code, user_prompt, max_iterations, max_iter, changeLog, iteration_start_output,
                   error_type, full_err, logic_issues, method, applied_method, old_code,
                   new_code, iter_source, merged_texts, llm_raw, mvars, fvars>>

\* Lines 426-427: the iterations are used up.
Exhausted ==
    /\ pc = "loop"
    /\ i > max_iter
    /\ report' = save_full_report(iteration_reports, changeLog, "FAILED")
    /\ returned' = code
    /\ pc' = "done"
    /\ UNCHANGED <<original_code, user_prompt, max_iterations, max_iter, code, i, iteration_reports, changeLog,
                   iteration_start_output, error_type, full_err, logic_issues, method,
                   applied_method, old_code, new_code, iter_source, merged_texts, last_run,
                   llm_raw, mvars, fvars>>

Init == CtlInit /\ MergeIdle /\ ErrIdle /\ TextIdle

Next ==
    \/ SemanticPrePass
    \/ EnterLoop
    \/ BeginIteration
    \/ ApplyAstFix
    \/ ApplyLlmFix
    \/ Validate
    \/ Exhausted

Spec == Init /\ [][Next]_vars

MergeNext == MergeCall

MergeSpecInit == MergeInit /\ CtlIdle /\ ErrIdle /\ TextIdle

MergeSpec == MergeSpecInit /\ [][MergeNext]_vars

(***************************************************************************)
(* One call of the error parser or of the classifier on its own.           *)
(***************************************************************************)
\* What a diagnostic may hold: the names parse_error looks for, the header
\* of a traceback, an exception it does not look for, the time-limit text.
DiagnosticTokens == {"SyntaxError", "NameError", "IndexError", "KeyError", "AttributeError",
                     "ZeroDivisionError", "RecursionError", "Traceback", "TypeError", "TIMEOUT"}

ErrInit ==
    /\ e_pc = "start"
    /\ e_stderr \in SUBSET DiagnosticTokens
    /\ e_kind = "NONE"
    /\ e_method = "NONE"

\* parse_error(stderr, code) for python.
ParseErrorCall ==
    /\ e_pc = "start"
    /\ e_kind' = parse_error(e_stderr)
    /\ e_pc' = "parsed"
    /\ UNCHANGED <<e_stderr, e_method, t_pc, t_code, t_first, t_second, mvars, cvars>>

\* choose_fix_method on the kind just parsed.
ChooseParsedCall ==
    /\ e_pc = "parsed"
    /\ e_method' = choose_fix_method(e_kind)
    /\ e_pc' = "chosen"
    /\ UNCHANGED <<e_stderr, e_kind, t_pc, t_code, t_first, t_second, mvars, cvars>>

\* choose_fix_method on any member of ErrorType.
ChooseFixMethodCall ==
    /\ e_pc = "start"
    /\ \E kind \in ErrorKinds :
          /\ e_kind' = kind
          /\ e_method' = choose_fix_method(kind)
    /\ e_pc' = "chosen"
    /\ UNCHANGED <<e_stderr, t_pc, t_code, t_first, t_second, mvars, cvars>>

ErrNext ==
    \/ ParseErrorCall
    \/ ChooseParsedCall
    \/ ChooseFixMethodCall

ErrSpecInit == ErrInit /\ CtlIdle /\ MergeIdle /\ TextIdle

ErrSpec == ErrSpecInit /\ [][ErrNext]_vars

(***************************************************************************)
(* apply_ssr_fix called on a source, and again on what it returned.        *)
(***************************************************************************)
\* The longest source built freely from SsrAlphabet.
MaxSsrLen == 3

\* The largest number of unclosed literals that open a source.
MaxOpeners == 6

SsrAlphabet ==
    {L(0, "open", "xs"), L(1, "open", "xs"), L(0, "expr", "xs"), L(1, "expr", "xs"),
     L(0, "def", "f"), L(0, "close", "1"), L(0, "quoted", ""), Blank}

\* Sources that open with more unclosed literals than SSR has attempts.
ManyOpeners ==
    { [j \in 1..k |-> L(0, "open", "xs")] \o t :
        k \in (SSR_MAX_ATTEMPTS + 1)..MaxOpeners,
        t \in SeqsUpTo({L(1, "expr", "xs"), L(0, "close", "1"), L(0, "close", "2"), Blank}, 1) }

SsrSources == {Canon(t) : t \in SeqsUpTo(SsrAlphabet, MaxSsrLen)} \cup ManyOpeners

SsrInit ==
    /\ t_pc = "start"
    /\ t_code \in SsrSources
    /\ t_first = <<>>
    /\ t_second = <<>>

\* apply_ssr_fix(code)
SsrFirstCall ==
    /\ t_pc = "start"
    /\ t_first' = apply_ssr_fix(t_code)
    /\ t_pc' = "once"
    /\ UNCHANGED <<t_code, t_second, e_pc, e_stderr, e_kind, e_method, mvars, cvars>>

\* apply_ssr_fix on the source the first call returned.
SsrSecondCall ==
    /\ t_pc = "once"
    /\ t_second' = apply_ssr_fix(t_first)
    /\ t_pc' = "twice"
    /\ UNCHANGED <<t_code, t_first, e_pc, e_stderr, e_kind, e_method, mvars, cvars>>

SsrNext ==
    \/ SsrFirstCall
    \/ SsrSecondCall

SsrSpecInit == SsrInit /\ CtlIdle /\ MergeIdle /\ ErrIdle

SsrSpec == SsrSpecInit /\ [][SsrNext]_vars

(***************************************************************************)
(* try_ast_fix as a function of its own: the sources that parse of at most *)
(* MaxAstLen lines over AstAlphabet, each given once to try_ast_fix.  The  *)
(* alphabet has a function with its body, assignments to a name that       *)
(* begins with a keyword and to a plain one, a call of sqrt and a read of  *)
(* factorial without their import, a subscript with an operator in it, an  *)
(* import of a module whose name ends in "or", the import of math and the  *)
(* import of sqrt from math, a comment and the empty line.                 *)
(***************************************************************************)
MaxAstLen == 3

AstAlphabet ==
    { L(0, "def", "fib"), L(1, "ret", "1"), L(0, "assign", "exceptions"),
      L(0, "assign", "x"), L(0, "list", "xs"), L(0, "call", "x"),
      L(0, "expr", "factorial"), L(0, "sub", "xs"), L(0, "import", "calculator"),
      L(0, "import", "math"), L(0, "from", "sqrt"), L(0, "marker", "1"), Blank }

AstSources == {t \in {Canon(s) : s \in SeqsUpTo(AstAlphabet, MaxAstLen)} : Parses(t)}

AstInit ==
    /\ t_pc = "start"
    /\ t_code \in AstSources
    /\ t_first = <<>>
    /\ t_second = <<>>

\* fixed = try_ast_fix(kind, code)
TryAstFixCall ==
    /\ t_pc = "start"
    /\ \E kind \in AST_FIRST :
           \E patched \in try_ast_fix(kind, t_code) :
               /\ ~patched.raised
               /\ t_first' = patched.text
    /\ t_pc' = "fixed"
    /\ UNCHANGED <<t_code, t_second, e_pc, e_stderr, e_kind, e_method, cvars, mvars>>

AstNext == TryAstFixCall

AstSpecInit == AstInit /\ CtlIdle /\ MergeIdle /\ ErrIdle

AstSpec == AstSpecInit /\ [][AstNext]_vars

(***************************************************************************)
(* The two bracket passes as functions of their own: the texts of at most  *)
(* MaxBrkLen characters, given to fix_unclosed_brackets and then to        *)
(* fix_backward_bracket_mismatch, and the result to the two once more.     *)
(***************************************************************************)
MaxBrkLen == 5

BrkChars == OpenerChars \cup CloserChars \cup {"a"}

BrkInit ==
    /\ t_pc = "start"
    /\ t_code \in SeqsUpTo(BrkChars, MaxBrkLen)
    /\ t_first = <<>>
    /\ t_second = <<>>

\* code = fix_backward_bracket_mismatch(fix_unclosed_brackets(code))
BracketPassesCall ==
    /\ t_pc = "start"
    /\ t_first' = FixBackwardChars(FixUnclosedChars(t_code))
    /\ t_pc' = "once"
    /\ UNCHANGED <<t_code, t_second, e_pc, e_stderr, e_kind, e_method, cvars, mvars>>

\* the two passes again, on their result
BracketPassesAgain ==
    /\ t_pc = "once"
    /\ t_second' = FixBackwardChars(FixUnclosedChars(t_first))
    /\ t_pc' = "twice"
    /\ UNCHANGED <<t_code, t_first, e_pc, e_stderr, e_kind, e_method, cvars, mvars>>

BrkNext == BracketPassesCall \/ BracketPassesAgain

BrkSpecInit == BrkInit /\ CtlIdle /\ MergeIdle /\ ErrIdle

BrkSpec == BrkSpecInit /\ [][BrkNext]_vars

(***************************************************************************)
(* inspect_and_test as a function of its own: the texts of at most         *)
(* MaxInspectLen lines over the alphabet, and one text whose tests end on  *)
(* the exception of analyze_test_results.                                  *)
(***************************************************************************)
MaxInspectLen == 3

InspectAlphabet ==
    { L(0, "def", "fib"), L(0, "def", "factorial"), L(1, "ret", "0"), L(1, "ret", "1"),
      L(1, "ret", "memo[0]"), L(1, "ret", "memo[n]"), L(0, "assign", "values"),
      L(0, "list", "xs"), L(0, "expr", "xs"), L(0, "expr", "y"), L(0, "prose", ""), Blank }

InspectSources ==
    {Canon(t) : t \in SeqsUpTo(InspectAlphabet, MaxInspectLen)}
        \cup { << L(0, "def", "fib"), L(1, "ret", "1"), L(0, "assign", "x"), L(0, "expr", "x"),
                  L(0, "expr", "y"), Blank >> }

InspectInit ==
    /\ t_pc = "start"
    /\ t_code \in InspectSources
    /\ t_first = <<>>
    /\ t_second = <<>>

\* result = inspect_and_test(code)
InspectCall ==
    /\ t_pc = "start"
    /\ t_first' = InspectStages(t_code)
    /\ t_pc' = "inspected"
    /\ UNCHANGED <<t_code, t_second, e_pc, e_stderr, e_kind, e_method, cvars, mvars>>

InspectNext == InspectCall

InspectSpecInit == InspectInit /\ CtlIdle /\ MergeIdle /\ ErrIdle

InspectSpec == InspectSpecInit /\ [][InspectNext]_vars


(***************************************************************************)
(* Properties of merge_llm_result, checked under MergeSpec.                *)
(***************************************************************************)
\* The candidate merge_llm_result derives from the LLM output of the call.
MCandidate == strip(_strip_non_code_prefix(m_llm_out))

\* ceil(SHRINK_THRESHOLD * n)
CeilShrink(n) == (n * SHRINK_THRESHOLD_PCT + 99) \div 100

\* The shrink check of the call rejects the candidate.
MShrinkRejects ==
    /\ _count_lines(m_base) > 0
    /\ _count_lines(MCandidate) < Max2(1, (_count_lines(m_base) * SHRINK_THRESHOLD_PCT) \div 100)

\* C5: whatever the LLM output, a call of merge_llm_result that returns
\* returns either its base argument verbatim or a text that parses.
C5_MergeValidity == m_pc = "returned" => (m_result = m_base \/ Parses(m_result))

\* C5 witness: a call whose candidate does not parse returned a text other
\* than its base.
C5_Witness ==
    /\ m_pc = "returned"
    /\ m_result # m_base
    /\ ~Parses(MCandidate)
    /\ Parses(m_result)

\* C7 as stated: on every path that returns a text other than base, the
\* result has at least ceil(0.75 * lines(base)) lines.
C7_ShrinkBoundAsStated ==
    (m_pc = "returned" /\ m_result # m_base)
        => _count_lines(m_result) >= CeilShrink(_count_lines(m_base))

\* C8 as stated: on every path, the result adds at most
\* MAX_ADDED_TOPLEVEL_DEFS top-level definitions and MAX_ADDED_IMPORTS
\* imports to base.
C8_AdditiveBoundAsStated ==
    m_pc = "returned"
        => /\ Cardinality(_top_level_names(m_result) \ _top_level_names(m_base))
                <= MAX_ADDED_TOPLEVEL_DEFS
           /\ Cardinality(_imports_from_code(m_result) \ _imports_from_code(m_base))
                <= MAX_ADDED_IMPORTS

\* C9 as stated: a parsing candidate the shrink check rejects, holding a
\* top-level definition that base defines too, has that definition spliced
\* into base, so the result is not base.
C9_PartialMergeAsStated ==
    (/\ m_pc = "returned"
     /\ Parses(MCandidate)
     /\ MShrinkRejects
     /\ \E j \in 1..Len(MCandidate) :
           /\ MCandidate[j].k = "def"
           /\ MCandidate[j].ind = 0
           /\ MCandidate[j].n \in _top_level_names(m_base)
           /\ \E h \in 1..Len(m_base) :
                 /\ m_base[h].k = "def" /\ m_base[h].n = MCandidate[j].n
                 /\ h < Len(m_base) /\ j < Len(MCandidate)
                 /\ m_base[h + 1] # MCandidate[j + 1])
        => m_result # m_base

(***************************************************************************)
(* Properties of run_repair_loop, checked under Spec.                      *)
(***************************************************************************)
\* The run ended in the semantic pre-pass.
EndedInPrePass == pc = "done" /\ Len(report.iterations) = 1 /\ report.iterations[1].iteration = 0

\* C1 as stated: no iteration hands on the source it received, neither the
\* pre-pass of iteration 0, which hands its source to the caller, nor an
\* iteration of the main loop, which hands its source to validation.
C1_EveryIterationChangesAsStated ==
    /\ EndedInPrePass => returned # original_code
    /\ pc = "validate" => new_code # iter_source

\* The records the run has created so far.
RecordsCreated ==
    {iteration_reports[j] : j \in 1..Len(iteration_reports)}
        \cup {report.iterations[j] : j \in 1..Len(report.iterations)}

\* C2 as stated: every record created with success = true has error kind
\* NONE and a stderr that is, cleaned, empty or a harmless warning.
C2_SuccessImpliesNoneAsStated ==
    \A r \in RecordsCreated :
        r.success => (r.error_type = "NONE" /\ is_success(r.stdout, r.stderr, "NONE"))

\* The lines without the line at position p, and with line l put at position p.
RemoveAt(lines, p) == SubSeq(lines, 1, p - 1) \o SubSeq(lines, p + 1, Len(lines))
InsertAt(lines, p, l) == SubSeq(lines, 1, p - 1) \o <<l>> \o SubSeq(lines, p, Len(lines))

\* One entry replayed: a removed line leaves the place its old line number
\* has behind the entries of its iteration replayed so far (shift is their
\* additions less their removals), an added line enters at its new line
\* number.  An entry whose place does not exist is passed over.
ReplayEntry(lines, e, shift) ==
    IF e.change_type = "removed"
    THEN (IF e.line_old + shift \in 1..Len(lines) /\ lines[e.line_old + shift] = e.old_text
          THEN RemoveAt(lines, e.line_old + shift) ELSE lines)
    ELSE (IF e.line_new \in 1..(Len(lines) + 1)
          THEN InsertAt(lines, e.line_new, e.new_text) ELSE lines)

\* The entries from the j-th on replayed in order on the lines.
RECURSIVE Replay(_, _, _, _)
Replay(lines, entries, j, shift) ==
    IF j > Len(entries) THEN lines
    ELSE IF j > 1 /\ entries[j - 1].iteration # entries[j].iteration /\ shift # 0
    THEN Replay(lines, entries, j, 0)
    ELSE Replay(ReplayEntry(lines, entries[j], shift), entries, j + 1,
                IF entries[j].change_type = "removed" THEN shift - 1 ELSE shift + 1)

\* C3 as stated: the ChangeEntries of the report, replayed in order on the
\* original source, give the returned source.
C3_ReplayGivesFinalAsStated ==
    pc = "done" => Replay(splitlines(original_code), report.changes, 1, 0) = splitlines(returned)

\* C4 as stated: a source returned with final_status SUCCESS is the source
\* of the last run of the Executor, and that run was classified NONE.
C4_SuccessWasExecutedAsStated ==
    (pc = "done" /\ report.final_status = "SUCCESS")
        => (last_run.code = returned /\ last_run.kind = "NONE")

\* C6 as stated: an iteration all of whose merges returned their base or
\* raised hands on the previous source, altered at most by the marker: for
\* iteration 0 the original source, for a main-loop iteration the source
\* its fixer received, behind post-fix SSR.
C6_RejectedMergeKeepsSourceAsStated ==
    /\ (EndedInPrePass /\ \A t \in merged_texts : t = original_code)
           => \/ returned = original_code
              \/ \E k \in DOMAIN IterNames :
                     returned = ensure_diff(original_code, original_code, k)
    /\ (pc = "validate" /\ applied_method = "LLM" /\ \A t \in merged_texts : t = old_code)
           => new_code \in {apply_ssr_fix(old_code),
                            apply_ssr_fix(ensure_diff(old_code, old_code, i))}

\* C10: in a saved report the indices of the records are 0 alone or 1, 2,
\* ..., k in that order, and total_iterations is the number of records.
C10_RecordIndicesContiguous ==
    pc = "done"
        => /\ report.total_iterations = Len(report.iterations)
           /\ \/ Len(report.iterations) = 1 /\ report.iterations[1].iteration = 0
              \/ \A j \in 1..Len(report.iterations) : report.iterations[j].iteration = j

\* C10 witness: a saved report with the records of two main-loop iterations.
C10_Witness ==
    /\ pc = "done"
    /\ Len(report.iterations) = 2
    /\ report.iterations[1].iteration = 1
    /\ report.iterations[2].iteration = 2

\* C11: in a saved report every ChangeEntry carries the index of a record of
\* the same report, and the entries stand in non-decreasing order of their
\* iteration.
C11_ChangeEntriesReferenceRecords ==
    pc = "done"
        => /\ \A j \in 1..Len(report.changes) :
                 \E r \in 1..Len(report.iterations) :
                     report.iterations[r].iteration = report.changes[j].iteration
           /\ \A j \in 2..Len(report.changes) :
                 report.changes[j - 1].iteration <= report.changes[j].iteration

\* C11 witness: a saved report whose change log holds entries of iteration 1
\* and of iteration 2.
C11_Witness ==
    /\ pc = "done"
    /\ \E j \in 1..Len(report.changes) : report.changes[j].iteration = 1
    /\ \E j \in 1..Len(report.changes) : report.changes[j].iteration = 2

\* C12 as stated: no failure of a stage inside a main-loop iteration ends
\* the run; an exception never escapes run_repair_loop.
C12_NoStageFailureEndsRunAsStated == pc # "crashed"

\* The last record is the record of a main-loop iteration whose fixer was the
\* LLM, and the answer of the LLM in that iteration was the empty text.
LlmFailedInLastIteration ==
    /\ pc \in {"loop", "done"}
    /\ iteration_reports # <<>>
    /\ Last(iteration_reports).iteration > 0
    /\ Last(iteration_reports).fix_method = "LLM"
    /\ llm_raw = <<>>

\* C13 as stated: a main-loop iteration in which generate_llm_fix yields the
\* empty text hands to validation the source its fixer received with the
\* forced-difference marker appended and nothing else, its record has
\* success = false, and the run does not end with SUCCESS at that iteration.
C13_LlmFaultIsUnsuccessfulAsStated ==
    /\ (pc = "validate" /\ applied_method = "LLM" /\ llm_raw = <<>>)
           => new_code = ensure_diff(old_code, old_code, i)
    /\ LlmFailedInLastIteration
           => /\ ~Last(iteration_reports).success
              /\ ~(pc = "done" /\ report.final_status = "SUCCESS")

(***************************************************************************)
(* Properties of parse_error and choose_fix_method, checked under ErrSpec. *)
(***************************************************************************)
\* The ten kinds the specification sends to the structured fixer.
StructuredKinds == {"SYNTAX", "NAME", "IMPORT", "ATTRIBUTE", "KEY", "VALUE", "FILE", "PARSE",
                    "REGEX", "ENCODING"}

\* C14: choose_fix_method answers "AST" exactly for the ten kinds SYNTAX,
\* NAME, IMPORT, ATTRIBUTE, KEY, VALUE, FILE, PARSE, REGEX, ENCODING and
\* "LLM" for every other member of the enumeration; it gives no third value.
C14_ChooseFixMethodPartition ==
    e_pc = "chosen" =>
        /\ e_method \in {"AST", "LLM"}
        /\ e_kind \in StructuredKinds => e_method = "AST"
        /\ e_kind \in ErrorKinds \ StructuredKinds => e_method = "LLM"

\* A kind of neither list (INDEX) went to the LLM by default.
C14_Witness ==
    /\ e_pc = "chosen" /\ e_stderr = {}
    /\ e_kind = "INDEX" /\ e_kind \notin LLM_FIRST /\ e_method = "LLM"

\* The names parse_error looks for in a python diagnostic.
RecognisedTokens == {"SyntaxError", "NameError", "IndexError", "KeyError", "AttributeError",
                     "ZeroDivisionError", "RecursionError"}

\* C15: parse_error gives NONE for an empty diagnostic; for a non-empty one
\* with none of the recognised names it gives RUNTIME when the text holds a
\* traceback header and UNKNOWN otherwise (the bare "TIMEOUT" for one).
C15_UnrecognisedIsUnknownAsStated ==
    e_pc = "parsed" =>
        /\ e_stderr = {} => e_kind = "NONE"
        /\ (e_stderr # {} /\ e_stderr \cap RecognisedTokens = {}) =>
              e_kind = (IF "Traceback" \in e_stderr THEN "RUNTIME" ELSE "UNKNOWN")

(***************************************************************************)
(* Properties of the method selection and of the iteration cap.            *)
(***************************************************************************)
\* The method a pair of kind and request selects when any request but the
\* empty string counts as one.
MethodOfNonEmpty(kind, prompt) ==
    IF prompt # "" \/ kind = "LOGICAL" THEN "LLM" ELSE choose_fix_method(kind)

\* The method a pair selects when a request counts once stripped of blanks.
MethodOfNonBlank(kind, prompt) ==
    IF prompt \notin {"", " "} \/ kind = "LOGICAL" THEN "LLM"
    ELSE IF kind \in StructuredKinds THEN "AST" ELSE "LLM"

\* C16 as stated: the method selected in step 4 is the LLM if user_prompt is
\* not the empty string or the effective kind is LOGICAL, else the choice of
\* choose_fix_method; any issue of the detector makes the kind LOGICAL.
C16_MethodOfKindAndPromptAsStated ==
    pc = "fix" =>
        /\ logic_issues # <<>> => error_type = "LOGICAL"
        /\ method = MethodOfNonEmpty(error_type, user_prompt)

\* C16 amended: the method selected in step 4 is a function of the effective
\* kind and of whether user_prompt holds anything but white space: the LLM
\* if it does or the kind is LOGICAL, else the choice of choose_fix_method;
\* any issue of the detector makes the kind LOGICAL.
C16_MethodOfKindAndStrippedPrompt ==
    pc = "fix" =>
        /\ logic_issues # <<>> => error_type = "LOGICAL"
        /\ method = MethodOfNonBlank(error_type, user_prompt)

\* A request of one space and a structured kind: the AST fixer is selected.
C16_Witness ==
    /\ pc = "fix" /\ user_prompt = " "
    /\ error_type \in StructuredKinds /\ method = "AST"

\* The main-loop records of the run so far.
LoopRecords == {r \in 1..Len(iteration_reports) : iteration_reports[r].iteration >= 1}

\* C17 as stated: for every max_iterations >= 0 the caller passes, the run
\* executes at most max_iterations main-loop iterations, the cap of the loop
\* being the caller's value; the configured default is the cap only when
\* the caller passes none.
C17_CapIsCallersValueAsStated ==
    /\ max_iterations = <<>> => (pc # "idle" => max_iter = MAX_ITERATIONS)
    /\ max_iterations # <<>> =>
          /\ max_iter = max_iterations[1]
          /\ pc \in {"fix", "validate"} => i <= max_iterations[1]
          /\ Cardinality(LoopRecords) <= max_iterations[1]

(***************************************************************************)
(* Properties of the fixers on their own, checked under SsrSpec.           *)
(***************************************************************************)
\* C18 (as stated): the report a run saves says FAILED exactly when none of
\* its iteration records has success = true; a report that says SUCCESS ends
\* with a record whose success is true, and a report that says FAILED holds
\* no such record.
C18_FailedIffNoSuccessAsStated ==
    pc = "done" =>
        /\ report.final_status = "FAILED"
               <=> \A r \in 1..Len(report.iterations) : ~report.iterations[r].success
        /\ report.final_status = "SUCCESS"
               => report.iterations # <<>> /\ Last(report.iterations).success

\* C19 as stated: apply_ssr_fix is idempotent, apply_ssr_fix of its result
\* is that result, also when the first call returns a best-effort result
\* that does not parse.
C19_SsrIdempotentAsStated == t_pc = "twice" => t_second = t_first

\* C20 (as stated): when try_ast_fix is given a source that parses, what it
\* returns parses too and defines the same names at top level: the healing
\* passes break no valid source.
C20_AstFixPreservesParseAsStated ==
    t_pc = "fixed" /\ Parses(t_code)
        => Parses(t_first) /\ _top_level_names(t_first) = _top_level_names(t_code)

\* The validation step of an iteration ends the run.
EndsAtValidation == pc = "validate" /\ pc' = "done"

\* The validation step of an iteration hands over to the next iteration.
GoesOnAfterValidation == pc = "validate" /\ pc' = "loop"

\* The record the validation step has just appended.
NewRecord == Last(iteration_reports')

\* The last record is that of the iteration whose number is the caller's cap.
LastIterationRecorded ==
    /\ pc = "loop" /\ iteration_reports # <<>> /\ max_iterations # <<>>
    /\ Last(iteration_reports).iteration = max_iterations[1]

\* C21 (as stated): the validation step of a main-loop iteration ends the
\* run, with SUCCESS, exactly when the method applied was the LLM and the
\* class evaluated again is NONE; in every other case it appends the record
\* of the iteration and the new source is the input of iteration i + 1, and
\* behind the iteration whose number is max_iterations the run ends with
\* FAILED.
C21_SuccessOnlyForCleanLlmFixAsStated ==
    [][ /\ pc = "validate" =>
            /\ EndsAtValidation \/ GoesOnAfterValidation
            /\ Len(iteration_reports') = Len(iteration_reports) + 1
            /\ NewRecord.iteration = i /\ NewRecord.code_snapshot = new_code
            /\ EndsAtValidation <=> (applied_method = "LLM" /\ NewRecord.error_type = "NONE")
            /\ EndsAtValidation => report'.final_status = "SUCCESS" /\ returned' = new_code
            /\ GoesOnAfterValidation => code' = new_code /\ i' = i + 1 /\ report' = report
        /\ LastIterationRecorded =>
            pc' = "done" /\ report'.final_status = "FAILED" /\ returned' = code ]_vars

\* The validation step appends a record whose output is not the output the
\* iteration started with.
OutputChanged ==
    /\ pc = "validate" /\ Len(iteration_reports') = Len(iteration_reports) + 1
    /\ NewRecord.stdout # iteration_start_output

C23_ParseBehindEachPassAsStated == t_pc = "fixed" => t_first \in StagedAstFixed(t_code)

\* C25: for every text, what fix_unclosed_brackets and then
\* fix_backward_bracket_mismatch leave is balanced - read with a stack over
\* ()[]{}, every closer pops its opener and the stack ends empty - and the
\* two passes applied to it once more change nothing.
C25_BracketPassesBalance ==
    /\ t_pc \in {"once", "twice"} => Balanced(t_first)
    /\ t_pc = "twice" => t_second = t_first

\* A closer without opener between two openers of different kinds: the
\* closer is dropped and the two openers are closed innermost first.
C25_Witness ==
    /\ t_pc = "twice"
    /\ t_code = <<"(", "]", "{">>
    /\ t_first = <<"(", "{", "}", ")">>
    /\ t_second = t_first

\* The only brackets without closer that the text holds stand in strings.
OnlyQuotedOpeners(t) == \A j \in 1..Len(t) : t[j].k # "open"

\* C24 (as stated): SSR reads quotes wherever it looks for openers, so a
\* line whose only bracket without closer stands in a string is never
\* selected: a text with no other opener comes back from SSR as it went in.
C24_QuotedOpenersIgnoredAsStated ==
    t_pc \in {"once", "twice"} /\ OnlyQuotedOpeners(t_code) => t_first = t_code

\* The text binds the name math: it holds "import math".
BindsMath(t) == \E j \in 1..Len(t) : t[j].k = "import" /\ t[j].n = "math"

\* The lines that read a name from math by its qualified name.
QualifiedLines(t) == {j \in 1..Len(t) : t[j].k \in {"qexpr", "qcall"}}

\* C26 (as stated): try_ast_fix rewrites an unresolved name to math.name
\* only when the text imports math in a way that binds the name math; when
\* math is absent or present only through "from math import X", it adds
\* "from math import name" instead: every qualified name it introduces
\* resolves.
C26_QualifiedNamesResolveAsStated ==
    t_pc = "fixed" /\ QualifiedLines(t_first) # {} => BindsMath(t_code) /\ BindsMath(t_first)

StageOrder == <<"fast", "static", "tests", "dynamic">>

StagePosition(stage) == CHOOSE x \in 1..Len(StageOrder) : StageOrder[x] = stage

Entered(r, stage) == \E x \in 1..Len(r.ran) : r.ran[x] = stage

EnteredInOrder(r) ==
    /\ r.ran # <<>> /\ r.ran[1] = "fast"
    /\ \A x \in 1..Len(r.ran) : \A y \in 1..Len(r.ran) :
          x < y => StagePosition(r.ran[x]) < StagePosition(r.ran[y])

\* C27: inspect_and_test enters its stages in the order fast known patterns,
\* static detectors, test generation, dynamic execution, and returns at the
\* first stage that yields issues: behind a fast match no other stage is
\* entered, behind static issues neither tests nor their run; the tests are
\* run only when neither of the two found an issue and a test was generated;
\* and every dict it returns has the keys issues, tests, test_results and note.
C27_StagesInOrder ==
    t_pc = "inspected" =>
        LET fast_issues == detect_known_patterns(t_code)
            static_issues == IF Parses(t_code) THEN StaticIssues(t_code) ELSE <<>>
        IN  /\ EnteredInOrder(t_first)
            /\ fast_issues # <<>> =>
                  /\ t_first.ran = <<"fast">>
                  /\ ~t_first.raised /\ t_first.result.issues = fast_issues
            /\ fast_issues = <<>> /\ static_issues # <<>> =>
                  /\ t_first.ran = <<"fast", "static">>
                  /\ ~t_first.raised /\ t_first.result.issues = static_issues
            /\ Entered(t_first, "dynamic") =>
                  /\ fast_issues = <<>> /\ static_issues = <<>>
                  /\ t_first.result.tests # <<>>
            /\ ~t_first.raised =>
                  DOMAIN t_first.result = {"issues", "tests", "test_results", "note"}
            /\ t_first.raised = inspect_and_test(t_code).raised
            /\ ~t_first.raised => t_first.result.issues = inspect_and_test(t_code).issues

C27_Witness ==
    /\ t_pc = "inspected"
    /\ t_code = << L(0, "def", "fib"), L(1, "ret", "memo[0]"), L(0, "assign", "values") >>
    /\ detect_shadowing_builtins(t_code) # <<>>
    /\ t_first.ran = <<"fast">>
    /\ Len(t_first.result.issues) = 1
    /\ t_first.result.note = "Known logical pattern detected (fast)."

LastSaved == report.iterations[Len(report.iterations)]

\* C28: a run that has saved a report with at least one record returns the
\* code_snapshot of the last record of that report, whether it ends behind
\* iteration 0, by the early success, by the success of an LLM fix or FAILED.
C28_ReturnedIsLastSnapshot ==
    pc = "done" /\ report.iterations # <<>> => returned = LastSaved.code_snapshot

C28_Witness ==
    /\ pc = "done" /\ report.final_status = "FAILED"
    /\ Len(report.iterations) = 2
    /\ report.iterations[1].code_snapshot # LastSaved.code_snapshot
    /\ LastSaved.code_snapshot # original_code
    /\ returned = LastSaved.code_snapshot

\* The run ended behind at least one iteration of the main loop.
EndedInMainLoop ==
    pc = "done" /\ report.iterations # <<>> /\ report.iterations[1].iteration >= 1

C30_SuccessMeansCleanRun ==
    EndedInMainLoop /\ report.final_status = "SUCCESS" =>
        /\ LastSaved.code_snapshot = returned
        /\ LastSaved.stderr = {}
        /\ LastSaved.error_type = "NONE"
        /\ ~inspect_and_test(returned).raised
        /\ inspect_and_test(returned).issues = <<>>

C30_Witness ==
    /\ EndedInMainLoop /\ report.final_status = "SUCCESS"
    /\ LastSaved.fix_method = "LLM"
    /\ inspect_and_test(original_code).issues # <<>>
    /\ returned # original_code
    /\ LastSaved.stderr = {}
    /\ inspect_and_test(returned).issues = <<>>

=============================================================================
